---- MODULE Spec2Model ----
(***************************************************************************)
(* A model of the PDFPage component (first definition of                   *)
(* src/components/PDFPage.tsx): the render effect, its cleanup, the        *)
(* asynchronous render pipeline (getPage, raster, text layer, annotation   *)
(* layer) and the DOM event listeners it installs.                         *)
(*                                                                         *)
(* One "invocation" is one call of render() made by one run of the        *)
(* effect.  Every await of render() is a suspension point: the promise     *)
(* resolves or rejects in a later step, and any effect run, cleanup or     *)
(* other promise resolution may happen in between.  An invocation lives in *)
(* a slot from the effect run that starts it until render() returns: slot  *)
(* 1 holds the invocation of the last effect run, the other slots hold     *)
(* superseded invocations that are still suspended.  The number of effect  *)
(* runs in a behaviour is not bounded, the number of invocations suspended *)
(* at the same time is.                                                    *)
(***************************************************************************)
EXTENDS Integers, Sequences, FiniteSets, TLC

\* ------------------------------------------------------------- bounds
\* The number of invocations of render() suspended at the same time.
MaxPending == 2
\* The number of distinct destination boxes (width, height) of the props.
NumBoxes == 2

Slots == 1..MaxPending
Boxes == 1..NumBoxes

VARIABLES
    alive,          \* the component is in the tree (its refs are non-null)
    props,          \* [box, priority]: the props the effect depends on
    annots,         \* the page has annotations (getAnnotations().length > 0)
    rendered,       \* useState rendered
    isRendering,    \* useState isRendering
    dirty,          \* why the effect must run: none, mount, state, props
    inv,            \* inv[k]: the invocation of render() in slot k
    renderTaskRef,  \* renderTaskRef.current: NullRef, SettledRef or a slot
    canvas,         \* [box, raster]: the canvas size, a raster is committed
    textLayer,      \* [box, full, stop]: the text layer div
    annotLayer,     \* [box, full, lst]: the annotation layer div
    request,        \* [superseding, commits]: since the last render request
    console         \* what the step just taken wrote to the console

\* The other components of the application, each with a specification of
\* its own further down.
VARIABLES
    goTo,           \* a call of linkService.goToDestination
    fit,            \* one evaluation of the viewport logic of render()
    analysis,       \* a call of analyzePdf
    auth,           \* [user, role]: useAuth()
    docs,           \* the documents of the Firestore collection magazines
    magazines,      \* useState magazines of AppProvider: the last snapshot
    modal,          \* the state and props of UploadModal
    calls,          \* the invocations of async functions now suspended
    notice,         \* what the last step showed, returned or let escape
    viewer          \* the state and refs of FlipbookViewer

pageVars == <<alive, props, annots, rendered, isRendering, dirty, inv,
              renderTaskRef, canvas, textLayer, annotLayer, request, console>>

\* What no step of a PDFPage touches.
storeVars == <<auth, docs, magazines, modal, calls, notice>>

elsewhere == <<goTo, fit, analysis, storeVars, viewer>>

\* What no step of goToDestination touches.
exceptGoTo == <<pageVars, fit, analysis, storeVars, viewer>>
\* What the viewport logic does not touch.
exceptFit == <<pageVars, goTo, analysis, storeVars, viewer>>
\* What analyzePdf does not touch.
exceptAnalysis == <<pageVars, goTo, fit, storeVars, viewer>>
\* What neither the store nor the upload modal touches.
exceptStore == <<pageVars, goTo, fit, analysis, viewer>>
\* What FlipbookViewer does not touch.
exceptViewer == <<pageVars, goTo, fit, analysis, storeVars>>

vars == <<pageVars, elsewhere>>

reactVars == <<rendered, isRendering, dirty>>
domVars == <<canvas, textLayer, annotLayer>>

\* ------------------------------------------------------ the invocation
\* renderTaskRef.current is null, or a task whose invocation has returned
\* (the task has completed, failed or been cancelled), or the task of the
\* invocation in a slot.
NullRef == 0
SettledRef == 0 - 1

\* A free slot.  pc is the await the invocation is suspended at, mounted
\* is the closure's flag, box the (width, height) it captured, task the
\* state of the RenderTask page.render gave it.
Free == [pc |-> "free", mounted |-> TRUE, box |-> 1, task |-> "none"]

\* The slot of the invocation of the last effect run, and the free slots
\* a superseded invocation can move to.
Cur == 1
FreeStale == {k \in Slots \ {Cur} : inv[k].pc = "free"}

\* --------------------------------------------------------------- init
PageInit ==
    /\ alive = TRUE
    /\ props \in [box : {1}, priority : BOOLEAN]
    /\ annots \in BOOLEAN
    /\ rendered = FALSE
    /\ isRendering = FALSE
    /\ dirty = "mount"
    /\ inv = [k \in Slots |-> Free]
    /\ renderTaskRef = NullRef
    /\ canvas = [box |-> 0, raster |-> FALSE]
    /\ textLayer = [box |-> 0, full |-> FALSE, stop |-> FALSE]
    /\ annotLayer = [box |-> 0, full |-> FALSE, lst |-> 0]
    /\ request = [superseding |-> FALSE, commits |-> 0]
    /\ console = "none"

\* No call of goToDestination has been made.
NoCall == [pc |-> "idle", dest |-> [type |-> "other", ref |-> "none"],
           onPageJump |-> FALSE, lookup |-> <<>>, called |-> <<>>,
           earlier |-> <<>>, warned |-> 0, calls |-> 0, settled |-> "none"]

\* The viewport logic has not been evaluated.
NoFit == [pc |-> "none"]

\* analyzePdf has not been called.
NoAnalysis == [pc |-> "idle", apiKey |-> FALSE, file |-> <<>>, calls |-> 0,
               result |-> <<>>, settled |-> "none", console |-> <<>>]

\* Nobody is signed in, the collection is empty, the modal is closed and
\* no call is pending.
NoUser == [user |-> "none", role |-> "none"]
NoUrl == [scheme |-> "", n |-> 0]
ClosedModal == [isOpen |-> FALSE, magazineToEdit |-> {}, step |-> "upload",
                file |-> 0, previewUrl |-> NoUrl, title |-> <<>>,
                description |-> "", category |-> "", saves |-> 0]
NoNotice == [alert |-> "none", console |-> "none", by |-> <<>>,
             returned |-> {}, unhandled |-> FALSE]
\* The useState and useRef initial values of FlipbookViewer, no load
\* pending. zoom is counted in halves (2 is zoom 1, 6 is zoom 3): the
\* zoom steps of 0.5 are exact in doubles.
ClosedViewer ==
    [pending |-> 0, totalPages |-> 0, loading |-> TRUE, error |-> "null",
     currentPage |-> 1, zoom |-> 2, pan |-> [x |-> 0, y |-> 0],
     isDragging |-> FALSE, dragStart |-> [x |-> 0, y |-> 0],
     panStart |-> [x |-> 0, y |-> 0], hasMoved |-> FALSE,
     isMobile |-> FALSE, height |-> 0]
NoStore ==
    /\ auth = NoUser
    /\ docs = {}
    /\ magazines = {}
    /\ modal = ClosedModal
    /\ calls = <<>>
    /\ notice = NoNotice

Init ==
    /\ viewer = ClosedViewer
    /\ PageInit
    /\ goTo = NoCall
    /\ fit = NoFit
    /\ analysis = NoAnalysis
    /\ NoStore

\* ------------------------------------------------------------ helpers
\* task.cancel(): a task still running is cancelled (its promise rejects
\* with RenderingCancelledException); a finished one is not affected.
CancelTask(v, ref) ==
    IF ref \in Slots /\ v[ref].task = "running"
    THEN [v EXCEPT ![ref].task = "cancelled"] ELSE v

\* A render() and a cleanup that leave the stored task alone.
KeepStored(v, ref) == v

\* if (renderTaskRef.current) renderTaskRef.current.cancel();
CancelStored(v, ref) == CancelTask(v, ref)

\* if (rendered && !priority) return;
SkipRender(r, priority) == r /\ ~priority

\* setRendered(true): the effect depends on rendered, so a change of it
\* makes React run the effect again.
DirtyAfterSetRendered(d, r) == IF ~r /\ d = "none" THEN "state" ELSE d

\* The effect's cleanup: mounted = false in the closure of its invocation.
Unmounted(v) ==
    IF v[Cur].pc # "free" THEN [v EXCEPT ![Cur].mounted = FALSE] ELSE v

\* An outer catch that logs whatever it catches.
AnyErrorIsLogged(name) == TRUE

\* catch (error): everything but a RenderingCancelledException is logged.
ErrorIsLogged(name) == name # "RenderingCancelledException"

\* An outer catch that leaves isRendering alone.
KeepIsRendering(k) == isRendering

\* if (mounted) setIsRendering(false), in the outer catch.
CatchIsRendering(k) == IF inv[k].mounted THEN FALSE ELSE isRendering

\* render() returns: the slot is free again.
Returned(v, k) == [v EXCEPT ![k] = Free]
RefAfterReturn(k) == IF renderTaskRef = k THEN SettledRef ELSE renderTaskRef

Return(k) ==
    /\ inv' = Returned(inv, k)
    /\ renderTaskRef' = RefAfterReturn(k)

\* --------------------------------------------------- effect and props
\* A run of the effect: React first runs the cleanup of the previous run,
\* then the effect, which calls render().  render() returns at once for a
\* page already rendered that is not a priority page.  A run made for a
\* mount or for changed props is a new render request.
RunEffect ==
    /\ alive /\ dirty # "none"
    /\ inv[Cur].pc # "free" => FreeStale # {}
    /\ LET skip == SkipRender(rendered, props.priority)
           v == CancelStored(Unmounted(inv), renderTaskRef)
           j == CHOOSE f \in FreeStale : \A g \in FreeStale : f <= g
           moved == IF v[Cur].pc # "free"
                    THEN [v EXCEPT ![j] = v[Cur], ![Cur] = Free] ELSE v
       IN /\ inv' = IF skip THEN moved
                    ELSE [moved EXCEPT ![Cur] =
                            [pc |-> "getPage", mounted |-> TRUE,
                             box |-> props.box, task |-> "none"]]
          /\ renderTaskRef' = IF renderTaskRef = Cur THEN j ELSE renderTaskRef
          /\ isRendering' = IF skip THEN isRendering ELSE TRUE
    /\ request' = IF dirty = "state" THEN request
                  ELSE [superseding |->
                            \/ inv[Cur].pc = "getPage"
                            \/ inv[Cur].pc = "raster" /\ inv[Cur].task = "running",
                        commits |-> 0]
    /\ dirty' = "none"
    /\ console' = "none"
    /\ UNCHANGED <<alive, props, annots, rendered, domVars>>
    /\ UNCHANGED elsewhere

\* The parent renders the page with a new box (width, height).
BoxChange(b) ==
    /\ alive /\ dirty \in {"none", "state"}
    /\ b # props.box
    /\ props' = [props EXCEPT !.box = b]
    /\ dirty' = "props"
    /\ console' = "none"
    /\ UNCHANGED <<alive, annots, rendered, isRendering, inv, renderTaskRef,
                   domVars, request>>
    /\ UNCHANGED elsewhere

\* The parent renders the page with another priority or another onPageJump
\* function (an inline arrow function is a new one at every render).
DepsChange(p) ==
    /\ alive /\ dirty \in {"none", "state"}
    /\ props' = [props EXCEPT !.priority = p]
    /\ dirty' = "props"
    /\ console' = "none"
    /\ UNCHANGED <<alive, annots, rendered, isRendering, inv, renderTaskRef,
                   domVars, request>>
    /\ UNCHANGED elsewhere

\* The component leaves the tree: the refs become null and the cleanup runs.
Unmount ==
    /\ alive
    /\ alive' = FALSE
    /\ inv' = CancelStored(Unmounted(inv), renderTaskRef)
    /\ dirty' = "none"
    /\ console' = "none"
    /\ UNCHANGED <<props, annots, rendered, isRendering, renderTaskRef,
                   domVars, request>>
    /\ UNCHANGED elsewhere

\* ------------------------------------------------- the render pipeline
frame == <<alive, props, annots>>

\* A render() that goes on to the layers without waiting for the task.
RasterNotAwaited(st) == st \in {"running", "done"}

\* await task.promise: the continuation of the raster step runs once the
\* task has completed.
RasterAwaited(st) == st = "done"

\* The annotation block: when the ref is set, the layer is emptied and
\* sized, and getAnnotations is awaited; otherwise render() returns.
AnnotationBlock(k) ==
    IF alive
    THEN /\ annotLayer' = [box |-> inv[k].box, full |-> FALSE, lst |-> 0]
         /\ inv' = [inv EXCEPT ![k].pc = "getAnnots"]
         /\ UNCHANGED renderTaskRef
    ELSE /\ annotLayer' = annotLayer
         /\ Return(k)

\* A text block without a catch of its own: the error reaches the outer
\* catch and render() returns.
TextUncaught(k) ==
    /\ console' = "Error rendering page"
    /\ annotLayer' = annotLayer
    /\ Return(k)

\* The text block's catch: the error is logged and render() goes on with
\* the annotation block.
TextCatch(k) ==
    /\ console' = "Text Layer Error"
    /\ AnnotationBlock(k)

\* pdfDoc.getPage resolves.  A superseded invocation returns; the current
\* one sizes the canvas, cancels the stored task and starts page.render.
GetPageResolve(k) ==
    /\ inv[k].pc = "getPage"
    /\ IF ~inv[k].mounted
       THEN /\ Return(k)
            /\ canvas' = canvas
       ELSE /\ canvas' = [box |-> inv[k].box, raster |-> FALSE]
            /\ inv' = [CancelStored(inv, renderTaskRef) EXCEPT
                          ![k].pc = "raster", ![k].task = "running"]
            /\ renderTaskRef' = k
    /\ console' = "none"
    /\ UNCHANGED <<frame, reactVars, textLayer, annotLayer, request>>
    /\ UNCHANGED elsewhere

\* pdfDoc.getPage rejects: the outer catch.
GetPageReject(k) ==
    /\ inv[k].pc = "getPage"
    /\ console' = "Error rendering page"
    /\ isRendering' = CatchIsRendering(k)
    /\ Return(k)
    /\ UNCHANGED <<frame, rendered, dirty, domVars, request>>
    /\ UNCHANGED elsewhere

\* The render task completes: the raster is on the canvas and the task's
\* promise is resolved.
TaskCompletes(k) ==
    /\ inv[k].pc = "raster" /\ inv[k].task = "running"
    /\ inv' = [inv EXCEPT ![k].task = "done"]
    /\ canvas' = [canvas EXCEPT !.raster = TRUE]
    /\ request' = [request EXCEPT !.commits = @ + 1]
    /\ console' = "none"
    /\ UNCHANGED <<frame, reactVars, renderTaskRef, textLayer, annotLayer>>
    /\ UNCHANGED elsewhere

\* render() resumes after await task.promise.
RasterResolve(k) ==
    /\ inv[k].pc = "raster" /\ RasterAwaited(inv[k].task)
    /\ IF ~inv[k].mounted
       THEN /\ Return(k)
            /\ UNCHANGED <<reactVars, textLayer>>
       ELSE /\ rendered' = TRUE
            /\ isRendering' = FALSE
            /\ dirty' = DirtyAfterSetRendered(dirty, rendered)
            /\ textLayer' = [textLayer EXCEPT !.box = inv[k].box,
                                              !.full = FALSE]
            /\ inv' = [inv EXCEPT ![k].pc = "getText"]
            /\ UNCHANGED renderTaskRef
    /\ console' = "none"
    /\ UNCHANGED <<frame, canvas, annotLayer, request>>
    /\ UNCHANGED elsewhere

\* The raster fails with a genuine error: the outer catch.
RasterReject(k) ==
    /\ inv[k].pc = "raster" /\ inv[k].task = "running"
    /\ console' = IF ErrorIsLogged("Error") THEN "Error rendering page"
                  ELSE "none"
    /\ isRendering' = CatchIsRendering(k)
    /\ Return(k)
    /\ UNCHANGED <<frame, rendered, dirty, domVars, request>>
    /\ UNCHANGED elsewhere

\* The promise of a cancelled task rejects with RenderingCancelledException.
RasterCancelled(k) ==
    /\ inv[k].pc = "raster" /\ inv[k].task = "cancelled"
    /\ console' = IF ErrorIsLogged("RenderingCancelledException")
                  THEN "Error rendering page" ELSE "none"
    /\ isRendering' = CatchIsRendering(k)
    /\ Return(k)
    /\ UNCHANGED <<frame, rendered, dirty, domVars, request>>
    /\ UNCHANGED elsewhere

\* page.getTextContent resolves: renderTextLayer is called when mounted.
TextContentResolve(k) ==
    /\ inv[k].pc = "getText"
    /\ IF inv[k].mounted
       THEN /\ inv' = [inv EXCEPT ![k].pc = "renderText"]
            /\ UNCHANGED <<annotLayer, renderTaskRef>>
       ELSE AnnotationBlock(k)
    /\ console' = "none"
    /\ UNCHANGED <<frame, reactVars, canvas, textLayer, request>>
    /\ UNCHANGED elsewhere

\* page.getTextContent rejects.
TextContentReject(k) ==
    /\ inv[k].pc = "getText"
    /\ TextCatch(k)
    /\ UNCHANGED <<frame, reactVars, canvas, textLayer, request>>
    /\ UNCHANGED elsewhere

\* renderTextLayer(...).promise resolves: the spans are in the div and the
\* three capturing listeners are added to it.
RenderTextResolve(k) ==
    /\ inv[k].pc = "renderText"
    /\ textLayer' = [textLayer EXCEPT !.full = TRUE, !.stop = TRUE]
    /\ AnnotationBlock(k)
    /\ console' = "none"
    /\ UNCHANGED <<frame, reactVars, canvas, request>>
    /\ UNCHANGED elsewhere

\* renderTextLayer(...).promise rejects.
RenderTextReject(k) ==
    /\ inv[k].pc = "renderText"
    /\ TextCatch(k)
    /\ UNCHANGED <<frame, reactVars, canvas, textLayer, request>>
    /\ UNCHANGED elsewhere

\* page.getAnnotations resolves: with annotations and mounted, the layer
\* is built and layer.render puts its elements into the div.
AnnotationsResolve(k) ==
    /\ inv[k].pc = "getAnnots"
    /\ IF inv[k].mounted /\ annots
       THEN /\ annotLayer' = [annotLayer EXCEPT !.full = TRUE]
            /\ inv' = [inv EXCEPT ![k].pc = "layerRender"]
            /\ UNCHANGED renderTaskRef
       ELSE /\ annotLayer' = annotLayer
            /\ Return(k)
    /\ console' = "none"
    /\ UNCHANGED <<frame, reactVars, canvas, textLayer, request>>
    /\ UNCHANGED elsewhere

\* page.getAnnotations rejects: the annotation block's catch.
AnnotationsReject(k) ==
    /\ inv[k].pc = "getAnnots"
    /\ console' = "Annotation Layer Error"
    /\ Return(k)
    /\ UNCHANGED <<frame, reactVars, domVars, request>>
    /\ UNCHANGED elsewhere

\* The number of listener sets on the elements now in the annotation layer
\* after querySelectorAll(...).forEach(... addEventListener ...).
InstalledListeners(layer) == IF layer.full THEN layer.lst + 1 ELSE layer.lst

\* layer.render resolves: the listeners are added to every interactive
\* element the annotation layer holds.
LayerRenderResolve(k) ==
    /\ inv[k].pc = "layerRender"
    /\ annotLayer' = [annotLayer EXCEPT !.lst = InstalledListeners(annotLayer)]
    /\ Return(k)
    /\ console' = "none"
    /\ UNCHANGED <<frame, reactVars, canvas, textLayer, request>>
    /\ UNCHANGED elsewhere

\* layer.render rejects: the annotation block's catch.
LayerRenderReject(k) ==
    /\ inv[k].pc = "layerRender"
    /\ console' = "Annotation Layer Error"
    /\ Return(k)
    /\ UNCHANGED <<frame, reactVars, domVars, request>>
    /\ UNCHANGED elsewhere

\* ------------------------------------------------------- DOM events
\* Strings are sequences of characters.
StartsWith(s, p) == Len(s) >= Len(p) /\ SubSeq(s, 1, Len(p)) = p

HttpPrefix == <<"h", "t", "t", "p">>
MailtoPrefix == <<"m", "a", "i", "l", "t", "o", ":">>

\* if (href.startsWith('http') || href.startsWith('mailto:'))
IsExternalHref(href) == StartsWith(href, HttpPrefix) \/ StartsWith(href, MailtoPrefix)

\* The URL of the document the application runs in.
BaseURL == <<"h", "t", "t", "p", "s", ":", "/", "/", "x", "/">>

SchemeChars == {"h", "t", "p", "s", "m", "a", "i", "l", "o", "f"}

\* link.href of an anchor: the href attribute as an absolute URL.  An
\* attribute that starts with a scheme is absolute; anything else is a
\* relative reference, resolved against the document's URL.
HasScheme(s) ==
    \E n \in 2..Len(s) : s[n] = ":" /\ \A m \in 1..(n - 1) : s[m] \in SchemeChars
ResolvedHref(attr) ==
    IF attr = <<>> THEN <<>>
    ELSE IF HasScheme(attr) THEN attr ELSE BaseURL \o attr

\* getDestinationHash: (dest) => JSON.stringify(dest).  An explicit
\* destination is an array whose first element is a page reference, a
\* named destination is a string.
DestinationHash(dest) ==
    IF dest.type = "array" THEN <<"[", dest.ref, "]">>
    ELSE <<"\"", dest.ref, "\"">>

\* The annotations of the page, by kind: links to a URL, links to a
\* destination in the document, and a push button without a link.
LinkKinds == {"http", "mailto", "ftp", "internal", "named"}
AnnotationKinds == LinkKinds \cup {"button"}

DestOf(kind) ==
    IF kind = "internal" THEN [type |-> "array", ref |-> "7"]
    ELSE [type |-> "string", ref |-> "n"]

\* The href attribute the annotation layer gives the anchor of a link.
HrefAttr(kind) ==
    CASE kind = "http" -> <<"h", "t", "t", "p", ":", "/", "/", "e">>
      [] kind = "mailto" -> <<"m", "a", "i", "l", "t", "o", ":", "u">>
      [] kind = "ftp" -> <<"f", "t", "p", ":", "/", "/", "e">>
      [] kind \in {"internal", "named"} -> DestinationHash(DestOf(kind))
      [] OTHER -> <<>>

\* The elements of one annotation, outermost first: a section that holds
\* the anchor of a link, or the section of a button alone.  The page-flip
\* element is an ancestor of the annotation layer.
ElementsOf(kind) ==
    IF kind \in LinkKinds THEN <<"section", "a">> ELSE <<"section">>
PathTo(kind, node) ==
    <<"flipbook", "annotationLayer">> \o
    (IF node = "a" THEN ElementsOf(kind) ELSE <<"section">>)

\* querySelectorAll('.linkAnnotation, a, .buttonWidgetAnnotation,
\* .internalLink'): the section and the anchor of every annotation.
IsInteractive(node) == node \in {"section", "a"}

\* Listeners for the mouse alone.
MouseTypes == {"mousedown"}

\* The event types whose propagation the listeners stop.
StopTypes == {"mousedown", "touchstart", "pointerdown"}

\* The listeners render() adds to an interactive element for an event
\* type, all with capture: true; n sets of them have been added.
CodeListeners(type, n) ==
    IF type \in StopTypes THEN [x \in 1..n |-> "preventAndStop"]
    ELSE IF type = "click" THEN [x \in 1..n |-> "clickListener"]
    ELSE <<>>

\* The listeners of a node for an event type in one phase, in the order
\* they were added.  The page-flip element listens in both phases; the
\* anchor of a link to a destination has the layer's own onclick.
ListenersOf(node, type, capture, kind, n) ==
    CASE node = "flipbook" ->
            IF capture THEN <<"ancestorCapture">> ELSE <<"ancestorBubble">>
      [] IsInteractive(node) /\ capture -> CodeListeners(type, n)
      [] node = "a" /\ ~capture /\ type = "click"
            /\ kind \in {"internal", "named"} -> <<"onclick">>
      [] OTHER -> <<>>

NewEvent == [stopped |-> FALSE, prevented |-> FALSE, opens |-> <<>>,
             gotos |-> <<>>, ancCapture |-> 0, ancBubble |-> 0]

\* window.open(href, '_blank', 'noopener,noreferrer')
WindowOpen(href) ==
    [url |-> href, target |-> "_blank", features |-> {"noopener", "noreferrer"}]

\* The click listener of an interactive element: it stops the propagation
\* and opens the anchor's href itself when it is an external one.
ClickListener(ev, node, kind) ==
    LET hasLink == node = "a" \/ kind \in LinkKinds
        href == ResolvedHref(HrefAttr(kind))
    IN IF hasLink /\ href # <<>> /\ IsExternalHref(href)
       THEN [ev EXCEPT !.stopped = TRUE, !.prevented = TRUE,
                       !.opens = Append(@, WindowOpen(href))]
       ELSE [ev EXCEPT !.stopped = TRUE]

\* One listener runs.
Handle(h, ev, node, kind) ==
    CASE h = "ancestorCapture" -> [ev EXCEPT !.ancCapture = @ + 1]
      [] h = "ancestorBubble" -> [ev EXCEPT !.ancBubble = @ + 1]
      [] h = "preventAndStop" -> [ev EXCEPT !.stopped = TRUE]
      [] h = "clickListener" -> ClickListener(ev, node, kind)
      [] h = "onclick" -> [ev EXCEPT !.prevented = TRUE,
                                     !.gotos = Append(@, DestOf(kind))]

\* All the listeners of one node run, whether or not one of them stops the
\* propagation.
RECURSIVE RunListeners(_, _, _, _)
RunListeners(hs, ev, node, kind) ==
    IF hs = <<>> THEN ev
    ELSE RunListeners(Tail(hs), Handle(Head(hs), ev, node, kind), node, kind)

\* The capture phase: from the outermost ancestor down to the target's
\* parent, until the propagation is stopped.
RECURSIVE CapturePhase(_, _, _, _, _, _)
CapturePhase(path, x, ev, type, kind, n) ==
    IF x >= Len(path) \/ ev.stopped THEN ev
    ELSE CapturePhase(path, x + 1,
            RunListeners(ListenersOf(path[x], type, TRUE, kind, n), ev,
                         path[x], kind),
            type, kind, n)

\* The target: its capturing listeners, then its other listeners.
TargetPhase(path, ev, type, kind, n) ==
    LET t == path[Len(path)]
    IN IF ev.stopped THEN ev
       ELSE RunListeners(ListenersOf(t, type, TRUE, kind, n)
                         \o ListenersOf(t, type, FALSE, kind, n), ev, t, kind)

\* The bubble phase: from the target's parent up to the outermost ancestor,
\* until the propagation is stopped.
RECURSIVE BubblePhase(_, _, _, _, _, _)
BubblePhase(path, x, ev, type, kind, n) ==
    IF x < 1 \/ ev.stopped THEN ev
    ELSE BubblePhase(path, x - 1,
            RunListeners(ListenersOf(path[x], type, FALSE, kind, n), ev,
                         path[x], kind),
            type, kind, n)

\* An event of a type is dispatched on a node of an annotation of a kind
\* while n sets of listeners are on the layer's elements.
Dispatch(type, kind, node, n) ==
    LET path == PathTo(kind, node)
        c == CapturePhase(path, 1, NewEvent, type, kind, n)
        t == TargetPhase(path, c, type, kind, n)
    IN BubblePhase(path, Len(path) - 1, t, type, kind, n)

\* goToDestination of the link service: the page index of an explicit
\* destination is looked up with getPageIndex, which resolves to an index
\* (lookup = <<index>>) or rejects (lookup = <<>>); the result is the
\* sequence of calls of onPageJump.
GoToDestination(dest, onPageJump, lookup) ==
    IF ~onPageJump THEN <<>>
    ELSE LET index == IF dest.type = "array" /\ lookup # <<>>
                      THEN lookup[1] ELSE 0 - 1
         IN IF index # 0 - 1 THEN <<index>> ELSE <<>>

\* The calls of onPageJump an event leads to.
RECURSIVE JumpsOf(_, _, _)
JumpsOf(gotos, onPageJump, lookup) ==
    IF gotos = <<>> THEN <<>>
    ELSE GoToDestination(Head(gotos), onPageJump, lookup)
         \o JumpsOf(Tail(gotos), onPageJump, lookup)

\* The events a user can dispatch on the annotation layer as it is now.
Targets == {t \in AnnotationKinds \X {"section", "a"} :
               t[2] = "a" => t[1] \in LinkKinds}
Outcome(type, t) == Dispatch(type, t[1], t[2], annotLayer.lst)
ListenersInstalled == annotLayer.full /\ annotLayer.lst >= 1

\* ----------------------------------- linkService.goToDestination
\* The number of calls of goToDestination in a behaviour.
MaxCalls == 2

\* No PDFPage is in the tree.
NoPage ==
    /\ alive = FALSE
    /\ props = [box |-> 1, priority |-> FALSE]
    /\ annots = FALSE
    /\ rendered = FALSE
    /\ isRendering = FALSE
    /\ dirty = "none"
    /\ inv = [k \in Slots |-> Free]
    /\ renderTaskRef = NullRef
    /\ canvas = [box |-> 0, raster |-> FALSE]
    /\ textLayer = [box |-> 0, full |-> FALSE, stop |-> FALSE]
    /\ annotLayer = [box |-> 0, full |-> FALSE, lst |-> 0]
    /\ request = [superseding |-> FALSE, commits |-> 0]
    /\ console = "none"

\* The page references pdfDoc.getPageIndex knows, and the index of each.
KnownRefs == {"7", "8"}
PageIndexOf(ref) == IF ref = "7" THEN 6 ELSE 2

\* The destinations a link can carry: an explicit destination whose first
\* element is a page reference the document knows, one it does not know,
\* or nothing at all; a named destination; anything else.
Dests ==
    [type : {"array"}, ref : KnownRefs \cup {"9", "none"}]
    \cup {[type |-> "string", ref |-> "n"], [type |-> "other", ref |-> "none"]}

\* An error thrown inside the try block without a catch: the promise of
\* goToDestination rejects.
Uncaught(g) == [g EXCEPT !.pc = "done", !.settled = "rejected"]

\* catch (e) { console.warn("Error al resolver enlace interno", e) }
CaughtAndWarned(g) ==
    [g EXCEPT !.pc = "done", !.settled = "fulfilled", !.warned = @ + 1]

\* goToDestination(dest) is called, with or without an onPageJump prop.
\* Without the prop it returns; a destination that is not an array leaves
\* index at -1; for an array pdfDoc.getPageIndex(dest[0]) is awaited.
GoToDestinationCall(dest, cb) ==
    /\ goTo.pc \in {"idle", "done"}
    /\ goTo.calls < MaxCalls
    /\ LET g == [goTo EXCEPT !.dest = dest, !.onPageJump = cb,
                             !.lookup = <<>>, !.called = <<>>,
                             !.earlier = goTo.earlier \o goTo.called,
                             !.calls = @ + 1]
       IN goTo' = IF cb /\ dest.type = "array"
                  THEN [g EXCEPT !.pc = "getPageIndex", !.settled = "pending"]
                  ELSE [g EXCEPT !.pc = "done", !.settled = "fulfilled"]
    /\ UNCHANGED exceptGoTo

\* pdfDoc.getPageIndex resolves, for a reference the document knows:
\* onPageJump(index) is called, and may itself throw.
GetPageIndexResolve(throws) ==
    /\ goTo.pc = "getPageIndex"
    /\ goTo.dest.ref \in KnownRefs
    /\ LET index == PageIndexOf(goTo.dest.ref)
           g == [goTo EXCEPT !.lookup = <<index>>,
                             !.called = IF index # 0 - 1 THEN <<index>>
                                        ELSE <<>>]
       IN goTo' = IF throws /\ index # 0 - 1 THEN CaughtAndWarned(g)
                  ELSE [g EXCEPT !.pc = "done", !.settled = "fulfilled"]
    /\ UNCHANGED exceptGoTo

\* pdfDoc.getPageIndex rejects: the reference is unknown or missing, or
\* the document has been destroyed.
GetPageIndexReject ==
    /\ goTo.pc = "getPageIndex"
    /\ goTo' = CaughtAndWarned(goTo)
    /\ UNCHANGED exceptGoTo

LinkInit ==
    /\ NoPage
    /\ viewer = ClosedViewer
    /\ goTo = NoCall
    /\ fit = NoFit
    /\ analysis = NoAnalysis
    /\ NoStore

LinkNext ==
    \/ \E dest \in Dests, cb \in BOOLEAN : GoToDestinationCall(dest, cb)
    \/ \E throws \in BOOLEAN : GetPageIndexResolve(throws)
    \/ GetPageIndexReject

LinkSpec == LinkInit /\ [][LinkNext]_vars

\* ------------------------------------------ the viewport logic (fit)
\* A JavaScript number has a significand of 53 bits.
Precision == 53

\* The arithmetic below works on the bits of a significand in chunks of
\* this many bits, so that no intermediate value leaves 32 bits.
ChunkLen == 14

\* The bits of n, most significant first, in exactly len places.
FixedBits(n, len) == [i \in 1..len |-> (n \div 2^(len - i)) % 2]

\* A natural number as its bits, most significant first, no leading zero.
BitsOf(n) ==
    FixedBits(n, CHOOSE len \in 0..30 :
                    /\ n < 2^len
                    /\ len > 0 => 2^(len - 1) <= n)

\* The natural number a string of at most ChunkLen bits stands for.
RECURSIVE Value(_)
Value(b) ==
    IF b = <<>> THEN 0
    ELSE IF Len(b) = 1 THEN b[1]
    ELSE LET h == Len(b) \div 2
         IN Value(SubSeq(b, 1, h)) * 2^(Len(b) - h)
            + Value(SubSeq(b, h + 1, Len(b)))

Zeros(n) == [i \in 1..n |-> 0]

StripZeros(b) ==
    IF \A i \in 1..Len(b) : b[i] = 0 THEN <<>>
    ELSE LET first == CHOOSE i \in 1..Len(b) :
                        b[i] = 1 /\ \A j \in 1..(i - 1) : b[j] = 0
         IN SubSeq(b, first, Len(b))

\* bits + 1
Increment(b) ==
    IF \A i \in 1..Len(b) : b[i] = 1 THEN <<1>> \o Zeros(Len(b))
    ELSE LET last == CHOOSE i \in 1..Len(b) :
                        b[i] = 0 /\ \A j \in (i + 1)..Len(b) : b[j] = 1
         IN [i \in 1..Len(b) |->
                IF i < last THEN b[i] ELSE IF i = last THEN 1 ELSE 0]

\* A number is [neg, sig, exp]: (-1)^neg * sig * 2^exp, where sig is
\* Precision bits with a leading 1, or empty for zero. The exponent range
\* of a double is never left by the sizes below.
Zero == [neg |-> FALSE, sig |-> <<>>, exp |-> 0]

\* Round the natural number bits * 2^exp (plus, with sticky, a non-zero
\* part below its last bit) to Precision bits, to nearest, ties to even.
RoundToNearestEven(bits, exp, sticky) ==
    IF bits = <<>> THEN Zero
    ELSE IF Len(bits) <= Precision
    THEN [neg |-> FALSE, sig |-> bits \o Zeros(Precision - Len(bits)),
          exp |-> exp - (Precision - Len(bits))]
    ELSE LET kept == SubSeq(bits, 1, Precision)
             guard == bits[Precision + 1]
             rest == sticky \/ \E i \in (Precision + 2)..Len(bits) : bits[i] = 1
             up == guard = 1 /\ (rest \/ kept[Precision] = 1)
             e == exp + Len(bits) - Precision
             inc == Increment(kept)
         IN IF ~up THEN [neg |-> FALSE, sig |-> kept, exp |-> e]
            ELSE IF Len(inc) > Precision
            THEN [neg |-> FALSE, sig |-> SubSeq(inc, 1, Precision), exp |-> e + 1]
            ELSE [neg |-> FALSE, sig |-> inc, exp |-> e]

\* An integer size as a number.
ToNumber(n) == RoundToNearestEven(BitsOf(n), 0, FALSE)

\* n / d = (r / dd) * 2^e with dd <= r < 2 * dd.
RECURSIVE Scaled(_, _, _)
Scaled(n, d, e) ==
    IF n >= 2 * d THEN Scaled(n, 2 * d, e + 1)
    ELSE IF n < d THEN Scaled(2 * n, d, e - 1)
    ELSE [r |-> n, d |-> d, e |-> e]

\* Long division: the next count bits of r / d for r < 2 * d, the first
\* of them the integer part, and what is left over after them.
RECURSIVE QuotientBits(_, _, _)
QuotientBits(r, d, count) ==
    IF count = 0 THEN <<>>
    ELSE LET n == IF count < ChunkLen THEN count ELSE ChunkLen
             q == (r * 2^(n - 1)) \div d
         IN FixedBits(q, n)
            \o QuotientBits(2 * (r * 2^(n - 1) - q * d), d, count - n)

RECURSIVE RemainderAfter(_, _, _)
RemainderAfter(r, d, count) ==
    IF count = 0 THEN r
    ELSE LET n == IF count < ChunkLen THEN count ELSE ChunkLen
             q == (r * 2^(n - 1)) \div d
         IN RemainderAfter(2 * (r * 2^(n - 1) - q * d), d, count - n)

\* width / unscaledViewport.width, for two positive integer sizes.
Divide(n, d) ==
    LET s == Scaled(n, d, 0)
    IN RoundToNearestEven(QuotientBits(s.r, s.d, Precision + 1),
                          s.e - Precision,
                          RemainderAfter(s.r, s.d, Precision + 1) # 0)

\* The bits of c * b[1..i] + carry, computed from the last chunk of b.
RECURSIVE MultiplyFrom(_, _, _, _)
MultiplyFrom(c, b, i, carry) ==
    IF i = 0 THEN BitsOf(carry)
    ELSE LET n == IF i < ChunkLen THEN i ELSE ChunkLen
             t == c * Value(SubSeq(b, i - n + 1, i)) + carry
         IN MultiplyFrom(c, b, i - n, t \div 2^n) \o FixedBits(t % 2^n, n)

\* An integer size times a positive number.
Multiply(c, x) ==
    RoundToNearestEven(StripZeros(MultiplyFrom(c, x.sig, Len(x.sig), 0)),
                       x.exp, FALSE)

\* x < y, for two positive numbers.
Less(x, y) ==
    \/ x.exp < y.exp
    \/ /\ x.exp = y.exp
       /\ \E i \in 1..Precision :
            /\ x.sig[i] < y.sig[i]
            /\ \A j \in 1..(i - 1) : x.sig[j] = y.sig[j]

\* Math.min
Min(x, y) == IF Less(y, x) THEN y ELSE x

\* The bits of x[1..i] - y[1..i] - borrow for two bit strings of one
\* length, x >= y, computed from the last chunk.
RECURSIVE SubtractFrom(_, _, _, _)
SubtractFrom(x, y, i, borrow) ==
    IF i = 0 THEN <<>>
    ELSE LET n == IF i < ChunkLen THEN i ELSE ChunkLen
             t == Value(SubSeq(x, i - n + 1, i))
                  - Value(SubSeq(y, i - n + 1, i)) - borrow
         IN SubtractFrom(x, y, i - n, IF t < 0 THEN 1 ELSE 0)
            \o FixedBits(IF t < 0 THEN t + 2^n ELSE t, n)

\* hi - lo, for two positive numbers with lo < hi.
Difference(hi, lo) ==
    LET x == hi.sig \o Zeros(hi.exp - lo.exp)
        y == Zeros(Len(x) - Precision) \o lo.sig
    IN RoundToNearestEven(StripZeros(SubtractFrom(x, y, Len(x), 0)),
                          lo.exp, FALSE)

\* x - y, for two positive numbers.
Subtract(x, y) ==
    IF x = y THEN Zero
    ELSE IF Less(y, x) THEN Difference(x, y)
    ELSE [Difference(y, x) EXCEPT !.neg = TRUE]

\* x / 2
Halve(x) == IF x = Zero THEN Zero ELSE [x EXCEPT !.exp = @ - 1]

\* The page sizes (unscaledViewport, in points) and the box sizes (the
\* width and height props, in CSS pixels) the logic is evaluated for.
PageWidths == {3, 600, 612}
PageHeights == {4, 792, 800}
BoxWidths == {2, 21, 308, 316, 400}
BoxHeights == {2, 29, 398, 400, 409}

\* page.getViewport({ scale }): the page size times the scale.
GetViewport(Wp, Hp, scale) ==
    [width |-> Multiply(Wp, scale), height |-> Multiply(Hp, scale)]

\* const unscaledViewport = page.getViewport({ scale: 1 }); ... scale =
\* Math.min(scaleX, scaleY); cssViewport = page.getViewport({ scale });
\* offsetX = (width - cssViewport.width) / 2, and offsetY alike.
ViewportLogic ==
    /\ fit.pc = "props"
    /\ LET scaleX == Divide(fit.width, fit.unscaledViewport.width)
           scaleY == Divide(fit.height, fit.unscaledViewport.height)
           scale == Min(scaleX, scaleY)
           cssViewport == GetViewport(fit.unscaledViewport.width,
                                      fit.unscaledViewport.height, scale)
       IN fit' = [pc |-> "sized",
                  unscaledViewport |-> fit.unscaledViewport,
                  width |-> fit.width, height |-> fit.height,
                  scale |-> scale,
                  cssViewport |-> cssViewport,
                  offsetX |-> Halve(Subtract(ToNumber(fit.width),
                                             cssViewport.width)),
                  offsetY |-> Halve(Subtract(ToNumber(fit.height),
                                             cssViewport.height))]
    /\ UNCHANGED exceptFit

FitInit ==
    /\ NoPage
    /\ viewer = ClosedViewer
    /\ goTo = NoCall
    /\ fit \in [pc : {"props"},
                unscaledViewport : [width : PageWidths, height : PageHeights],
                width : BoxWidths, height : BoxHeights]
    /\ analysis = NoAnalysis
    /\ NoStore

FitNext == ViewportLogic

FitSpec == FitInit /\ [][FitNext]_vars

\* ------------------------------------------------------- analyzePdf
\* The number of calls of analyzePdf in a behaviour.
MaxAnalyses == 3

\* The names of the files analyzePdf is called with.
FileNames ==
    {<<"a", ".", "p", "d", "f">>,
     <<"a">>,
     <<"a", ".", "p", "d", "f", ".", "p", "d", "f">>,
     <<".", "p", "d", "f", "a">>,
     <<"a", ".", "P", "D", "F">>,
     <<"b", ".", "p", "d", "f">>}

PdfSuffix == <<".", "p", "d", "f">>

\* String.prototype.replace(pattern, '') with a string pattern: the first
\* occurrence of the pattern is removed, wherever it is.
ReplaceFirst(str, pattern) ==
    LET at == {i \in 1..(Len(str) - Len(pattern) + 1) :
                  SubSeq(str, i, i + Len(pattern) - 1) = pattern}
    IN IF at = {} THEN str
       ELSE LET i == CHOOSE j \in at : \A l \in at : j <= l
            IN SubSeq(str, 1, i - 1)
               \o SubSeq(str, i + Len(pattern), Len(str))

\* The mock data returned when process.env.API_KEY is not set.
MockData(file) ==
    [title |-> ReplaceFirst(file, PdfSuffix),
     description |-> "Descripción generada automáticamente no disponible (falta API Key).",
     category |-> "General"]

\* The fallback returned by the catch block.
Fallback(file) ==
    [title |-> ReplaceFirst(file, PdfSuffix),
     description |-> "No se pudo generar una descripción automática.",
     category |-> "Uncategorized"]

\* The texts a response of the model can carry: none, a JSON object with
\* the three fields, or something that is not JSON.
ResponseTexts == {"", "object", "not json"}

\* JSON.parse(text) of the JSON object.
Parsed == [title |-> <<"B">>, description |-> "D", category |-> "C"]

\* catch (error) { console.error("Error analyzing PDF:", error); return
\* the fallback }
CatchAnalysis(a, error) ==
    [a EXCEPT !.pc = "done", !.settled = "fulfilled",
              !.result = <<Fallback(a.file)>>,
              !.console = <<"Error analyzing PDF:", error>>]

\* analyzePdf(file) is called: without an API key it warns and returns the
\* mock data, with one it awaits fileToGenerativePart(file).
AnalyzePdfCall(file) ==
    /\ analysis.pc \in {"idle", "done"}
    /\ analysis.calls < MaxAnalyses
    /\ analysis' =
         IF ~analysis.apiKey
         THEN [analysis EXCEPT !.pc = "done", !.file = file,
                               !.calls = @ + 1,
                               !.result = <<MockData(file)>>,
                               !.settled = "fulfilled",
                               !.console = <<"API Key not found, returning mock data">>]
         ELSE [analysis EXCEPT !.pc = "read", !.file = file,
                               !.calls = @ + 1, !.result = <<>>,
                               !.settled = "pending", !.console = <<>>]
    /\ UNCHANGED exceptAnalysis

\* The FileReader has read the file: generateContent is awaited.
FileReadResolve ==
    /\ analysis.pc = "read"
    /\ analysis' = [analysis EXCEPT !.pc = "generate"]
    /\ UNCHANGED exceptAnalysis

\* reader.onerror: the promise of fileToGenerativePart rejects.
FileReadReject ==
    /\ analysis.pc = "read"
    /\ analysis' = CatchAnalysis(analysis, "reader.onerror")
    /\ UNCHANGED exceptAnalysis

\* generateContent resolves: an empty text throws, otherwise the text is
\* parsed, and JSON.parse throws on what is not JSON.
GenerateContentResolve(text) ==
    /\ analysis.pc = "generate"
    /\ analysis' =
         IF text = "object"
         THEN [analysis EXCEPT !.pc = "done", !.settled = "fulfilled",
                               !.result = <<Parsed>>]
         ELSE CatchAnalysis(analysis, IF text = ""
                                      THEN "No response from AI"
                                      ELSE "SyntaxError")
    /\ UNCHANGED exceptAnalysis

\* generateContent rejects: the service is unreachable or refuses.
GenerateContentReject ==
    /\ analysis.pc = "generate"
    /\ analysis' = CatchAnalysis(analysis, "generateContent")
    /\ UNCHANGED exceptAnalysis

AnalysisInit ==
    /\ NoPage
    /\ viewer = ClosedViewer
    /\ goTo = NoCall
    /\ fit = NoFit
    /\ analysis \in {[NoAnalysis EXCEPT !.apiKey = key] : key \in BOOLEAN}
    /\ NoStore

AnalysisNext ==
    \/ \E file \in FileNames : AnalyzePdfCall(file)
    \/ FileReadResolve
    \/ FileReadReject
    \/ \E text \in ResponseTexts : GenerateContentResolve(text)
    \/ GenerateContentReject

AnalysisSpec == AnalysisInit /\ [][AnalysisNext]_vars

\* ------------------------------------------------ the magazine store
\* How many calls can be suspended at one time.
MaxPendingCalls == 2

\* The uid of the signed-in user.
Uid == "u"

\* Strings that are looked at character by character (titles, slugs, ids)
\* are sequences of characters.
Alphanumeric == {"a", "b", "e", "1", "2", "3", "4", "5", "6", "7"}

\* toLowerCase()
LowerCase(c) ==
    CASE c = "A" -> "a" [] c = "B" -> "b" [] c = "É" -> "é" [] OTHER -> c

\* normalize("NFD") and the removal of the combining marks
Unaccented(c) == IF c = "é" THEN "e" ELSE c

RECURSIVE SkipOthers(_)
SkipOthers(t) ==
    IF t = <<>> \/ Head(t) \in Alphanumeric THEN t ELSE SkipOthers(Tail(t))

\* replace(/[^a-z0-9]+/g, "-")
RECURSIVE Hyphenated(_)
Hyphenated(t) ==
    IF t = <<>> THEN <<>>
    ELSE IF Head(t) \in Alphanumeric THEN <<Head(t)>> \o Hyphenated(Tail(t))
    ELSE <<"-">> \o Hyphenated(SkipOthers(t))

\* replace(/^-+|-+$/g, "")
RECURSIVE Trimmed(_)
Trimmed(t) ==
    IF t = <<>> THEN <<>>
    ELSE IF Head(t) = "-" THEN Trimmed(Tail(t))
    ELSE IF t[Len(t)] = "-" THEN Trimmed(SubSeq(t, 1, Len(t) - 1))
    ELSE t

\* replace(/-+/g, "-")
RECURSIVE Collapsed(_)
Collapsed(t) ==
    IF Len(t) < 2 THEN t
    ELSE IF t[1] = "-" /\ t[2] = "-" THEN Collapsed(Tail(t))
    ELSE <<Head(t)>> \o Collapsed(Tail(t))

createSlug(text) ==
    Collapsed(Trimmed(Hyphenated(
        [i \in 1..Len(text) |-> Unaccented(LowerCase(text[i]))])))

\* The URLs a document can hold: a download URL of Firebase Storage, a
\* blob: URL of a selected file, a data: URL of a rendered cover, or a URL
\* elsewhere (the fallback cover, seeded data).
Url(scheme, n) == [scheme |-> scheme, n |-> n]

\* A document written earlier: the file 0 uploaded by the signed-in user.
Stored(id, title, pdfScheme, coverScheme) ==
    [id |-> id, userId |-> Uid, createdAt |-> 0, title |-> title,
     description |-> "stored", category |-> "stored",
     pdfUrl |-> Url(pdfScheme, 0),
     coverImage |-> IF coverScheme = "" THEN NoUrl ELSE Url(coverScheme, 0),
     pageCount |-> 1, slug |-> createSlug(title),
     originalFilename |-> <<"o", ".", "p", "d", "f">>]

Remove(seq, i) == SubSeq(seq, 1, i - 1) \o SubSeq(seq, i + 1, Len(seq))

\* calls[i] is a suspended call of fn at pc.
At(i, fn, pc) ==
    i \in 1..Len(calls) /\ calls[i].fn = fn /\ calls[i].pc = pc

\* What a step shows: an alert, a console message, the value a call
\* returns to its caller, a rejection nobody handles.
Returns(call, value) ==
    [NoNotice EXCEPT !.by = <<call>>, !.returned = value]

\* onSnapshot: the listener sets magazines to the documents of the user.
Snapshot ==
    /\ magazines # {d \in docs : d.userId = auth.user}
    /\ magazines' = {d \in docs : d.userId = auth.user}
    /\ notice' = NoNotice
    /\ UNCHANGED <<auth, docs, modal, calls>>
    /\ UNCHANGED exceptStore

\* -------------------------------------------------- getMagazineBySlug
\* An error escapes getMagazineBySlug: its promise rejects.
LookupRethrown(call) ==
    [NoNotice EXCEPT !.by = <<call>>, !.unhandled = TRUE]

\* catch (e) { console.error("Error fetching public magazine", e);
\* return null }
LookupCatch(call) ==
    [Returns(call, {}) EXCEPT !.console = "Error fetching public magazine"]

\* getMagazineBySlug(slugOrId) is called: the query by slug is awaited.
GetMagazineBySlugCall(slugOrId) ==
    /\ Len(calls) < MaxPendingCalls
    /\ calls' = Append(calls, [fn |-> "getMagazineBySlug", pc |-> "getDocs",
                               slugOrId |-> slugOrId])
    /\ notice' = NoNotice
    /\ UNCHANGED <<auth, docs, magazines, modal>>
    /\ UNCHANGED exceptStore

\* getDocs resolves: with limit(1) the snapshot holds one of the documents
\* whose slug is slugOrId, which is returned, or it is empty and the
\* document of that id is fetched.
GetDocsResolve(i) ==
    /\ At(i, "getMagazineBySlug", "getDocs")
    /\ LET found == {d \in docs : d.slug = calls[i].slugOrId}
       IN IF found = {}
          THEN /\ calls' = [calls EXCEPT ![i].pc = "getDoc"]
               /\ notice' = NoNotice
          ELSE /\ calls' = Remove(calls, i)
               /\ \E d \in found : notice' = Returns(calls[i], {d})
    /\ UNCHANGED <<auth, docs, magazines, modal>>
    /\ UNCHANGED exceptStore

GetDocsReject(i) ==
    /\ At(i, "getMagazineBySlug", "getDocs")
    /\ calls' = Remove(calls, i)
    /\ notice' = LookupCatch(calls[i])
    /\ UNCHANGED <<auth, docs, magazines, modal>>
    /\ UNCHANGED exceptStore

\* getDoc resolves: the document is returned if it exists, null otherwise.
GetDocResolve(i) ==
    /\ At(i, "getMagazineBySlug", "getDoc")
    /\ calls' = Remove(calls, i)
    /\ notice' = Returns(calls[i], {d \in docs : d.id = calls[i].slugOrId})
    /\ UNCHANGED <<auth, docs, magazines, modal>>
    /\ UNCHANGED exceptStore

GetDocReject(i) ==
    /\ At(i, "getMagazineBySlug", "getDoc")
    /\ calls' = Remove(calls, i)
    /\ notice' = LookupCatch(calls[i])
    /\ UNCHANGED <<auth, docs, magazines, modal>>
    /\ UNCHANGED exceptStore

\* The titles of the documents looked up: the slug of the first is the id
\* of a document, the second has a slug of its own, the third has none.
LookupTitles == {<<"2">>, <<"A", " ", "B", "é", "!">>, <<"!">>}

\* The collections looked up: documents 1 and 2, each there or not.
LookupDocs ==
    {one \cup two :
        one \in {{}} \cup {{Stored(<<"1">>, t, "firebasestorage", "data")} :
                              t \in LookupTitles},
        two \in {{}} \cup {{Stored(<<"2">>, t, "firebasestorage", "data")} :
                              t \in LookupTitles}}

\* The slug parameter of the route /view/:slug.
Slugs == {<<"1">>, <<"2">>, <<"a", "-", "b", "e">>, <<"z">>}

LookupInit ==
    /\ NoPage
    /\ viewer = ClosedViewer
    /\ goTo = NoCall
    /\ fit = NoFit
    /\ analysis = NoAnalysis
    /\ auth = NoUser
    /\ docs \in LookupDocs
    /\ magazines = {}
    /\ modal = ClosedModal
    /\ calls = <<>>
    /\ notice = NoNotice

LookupNext ==
    \/ \E slugOrId \in Slugs : GetMagazineBySlugCall(slugOrId)
    \/ \E i \in 1..MaxPendingCalls : GetDocsResolve(i)
    \/ \E i \in 1..MaxPendingCalls : GetDocsReject(i)
    \/ \E i \in 1..MaxPendingCalls : GetDocResolve(i)
    \/ \E i \in 1..MaxPendingCalls : GetDocReject(i)

LookupSpec == LookupInit /\ [][LookupNext]_vars

\* ----------------------------------------------------- deleteMagazine
\* mag.pdfUrl && mag.pdfUrl.includes('firebasestorage'), and the same for
\* the cover.
InStorage(url) == url.scheme = "firebasestorage"

\* The await deleteMagazine reaches next: the deletion of the PDF blob,
\* that of the cover blob, then deleteDoc.
AfterStart(mag) ==
    IF mag # {} /\ \E m \in mag : InStorage(m.pdfUrl) THEN "pdf"
    ELSE IF mag # {} /\ \E m \in mag : InStorage(m.coverImage) THEN "cover"
    ELSE "deleteDoc"

AfterBlob(call) ==
    IF call.pc = "pdf" /\ \E m \in call.mag : InStorage(m.coverImage)
    THEN "cover"
    ELSE "deleteDoc"

\* A failed deletion of a blob without a catch of its own: the outer catch
\* logs, alerts, and deleteMagazine returns without calling deleteDoc.
BlobRethrown(i) ==
    /\ calls' = Remove(calls, i)
    /\ notice' = [Returns(calls[i], {}) EXCEPT
                     !.console = "Error deleting magazine:",
                     !.alert = "Error al eliminar la revista."]

\* catch (e) { console.warn(`Could not delete PDF for ${id}`, e) }, and the
\* same for the cover: deleteMagazine goes on.
BlobCatch(i) ==
    /\ calls' = [calls EXCEPT ![i].pc = AfterBlob(calls[i])]
    /\ notice' = [NoNotice EXCEPT
                     !.console = IF calls[i].pc = "pdf"
                                 THEN "Could not delete PDF"
                                 ELSE "Could not delete cover"]

\* deleteMagazine(id) is called: the document is looked for in magazines
\* and the first deletion is awaited.
DeleteMagazineCall(id) ==
    /\ Len(calls) < MaxPendingCalls
    /\ LET mag == {m \in magazines : m.id = id}
       IN calls' = Append(calls, [fn |-> "deleteMagazine", id |-> id,
                                  mag |-> mag, pc |-> AfterStart(mag)])
    /\ notice' = NoNotice
    /\ UNCHANGED <<auth, docs, magazines, modal>>
    /\ UNCHANGED exceptStore

\* deleteObject resolves: the blob is gone.
DeleteObjectResolve(i) ==
    /\ At(i, "deleteMagazine", "pdf") \/ At(i, "deleteMagazine", "cover")
    /\ calls' = [calls EXCEPT ![i].pc = AfterBlob(calls[i])]
    /\ notice' = NoNotice
    /\ UNCHANGED <<auth, docs, magazines, modal>>
    /\ UNCHANGED exceptStore

\* ref(storage, url) throws or deleteObject rejects.
DeleteObjectReject(i) ==
    /\ At(i, "deleteMagazine", "pdf") \/ At(i, "deleteMagazine", "cover")
    /\ BlobCatch(i)
    /\ UNCHANGED <<auth, docs, magazines, modal>>
    /\ UNCHANGED exceptStore

\* deleteDoc resolves: the document is not in the collection any more.
DeleteDocResolve(i) ==
    /\ At(i, "deleteMagazine", "deleteDoc")
    /\ docs' = {d \in docs : d.id # calls[i].id}
    /\ calls' = Remove(calls, i)
    /\ notice' = Returns(calls[i], {})
    /\ UNCHANGED <<auth, magazines, modal>>
    /\ UNCHANGED exceptStore

\* deleteDoc rejects: the outer catch logs and alerts.
DeleteDocReject(i) ==
    /\ At(i, "deleteMagazine", "deleteDoc")
    /\ calls' = Remove(calls, i)
    /\ notice' = [Returns(calls[i], {}) EXCEPT
                     !.console = "Error deleting magazine:",
                     !.alert = "Error al eliminar la revista."]
    /\ UNCHANGED <<auth, docs, magazines, modal>>
    /\ UNCHANGED exceptStore

\* The documents deleted: one document of the user, its PDF and its cover
\* in Firebase Storage or elsewhere, the cover possibly missing.
DeleteDocs ==
    {{Stored(<<"1">>, <<"A">>, pdf, cover)} :
        pdf \in {"firebasestorage", "https"},
        cover \in {"firebasestorage", "data", ""}}

\* The user is signed in; the snapshot of the collection has arrived or
\* has not.
DeleteInit ==
    /\ NoPage
    /\ viewer = ClosedViewer
    /\ goTo = NoCall
    /\ fit = NoFit
    /\ analysis = NoAnalysis
    /\ auth = [user |-> Uid, role |-> "free"]
    /\ docs \in DeleteDocs
    /\ magazines \in {docs, {}}
    /\ modal = ClosedModal
    /\ calls = <<>>
    /\ notice = NoNotice

DeleteNext ==
    \/ \E id \in {<<"1">>, <<"2">>} : DeleteMagazineCall(id)
    \/ \E i \in 1..MaxPendingCalls : DeleteObjectResolve(i)
    \/ \E i \in 1..MaxPendingCalls : DeleteObjectReject(i)
    \/ \E i \in 1..MaxPendingCalls : DeleteDocResolve(i)
    \/ \E i \in 1..MaxPendingCalls : DeleteDocReject(i)
    \/ Snapshot

DeleteSpec == DeleteInit /\ [][DeleteNext]_vars

\* -------------------------------------- UploadModal and the writes
\* How many documents the collection can hold, how many files the user
\* can choose from, and how many times Save is clicked in a behaviour
\* (modal.saves counts the clicks).
MaxDocs == 7
MaxFiles == 1
MaxSaves == 1

\* Limit applies if NOT premium, NOT editing, and count >= 5.
UploadLimit == 5

Files == 1..MaxFiles
FileName(f) == IF f = 1 THEN <<"a", ".", "p", "d", "f">>
               ELSE <<"b", ".", "p", "d", "f">>
\* pdf.numPages of the file.
NumPages(f) == f + 1

DigitChars == <<"1", "2", "3", "4", "5", "6", "7", "8", "9">>

\* crypto.randomUUID(): an id no document and no pending write has.
UsedIds ==
    {d.id : d \in docs}
    \cup {calls[i].id : i \in {j \in 1..Len(calls) :
                                   calls[j].fn = "addMagazine"}}
RandomUUID ==
    <<DigitChars[CHOOSE n \in 1..MaxDocs :
                    /\ <<DigitChars[n]>> \notin UsedIds
                    /\ \A m \in 1..(n - 1) : <<DigitChars[m]>> \in UsedIds]>>

isLimitReached ==
    /\ auth.role # "premium"
    /\ modal.magazineToEdit = {}
    /\ Cardinality(magazines) >= UploadLimit

\* handleOpenUpload, and the effect of UploadModal in create mode.
HandleOpenUpload ==
    /\ auth.user # "none"
    /\ ~modal.isOpen
    /\ modal' = [ClosedModal EXCEPT !.isOpen = TRUE, !.saves = modal.saves]
    /\ notice' = NoNotice
    /\ UNCHANGED <<auth, docs, magazines, calls>>
    /\ UNCHANGED exceptStore

\* handleEdit(mag), and the effect of UploadModal in edit mode.
HandleEdit(mag) ==
    /\ ~modal.isOpen
    /\ modal' = [isOpen |-> TRUE, magazineToEdit |-> {mag},
                 step |-> "review", file |-> 0,
                 previewUrl |-> mag.coverImage, title |-> mag.title,
                 description |-> mag.description,
                 category |-> mag.category, saves |-> modal.saves]
    /\ notice' = NoNotice
    /\ UNCHANGED <<auth, docs, magazines, calls>>
    /\ UNCHANGED exceptStore

OnClose ==
    /\ modal.isOpen
    /\ modal' = [modal EXCEPT !.isOpen = FALSE]
    /\ notice' = NoNotice
    /\ UNCHANGED <<auth, docs, magazines, calls>>
    /\ UNCHANGED exceptStore

\* The button of the review step that goes back to the file input.
ChangePdf ==
    /\ modal.isOpen /\ modal.step = "review"
    /\ modal' = [modal EXCEPT !.step = "upload"]
    /\ notice' = NoNotice
    /\ UNCHANGED <<auth, docs, magazines, calls>>
    /\ UNCHANGED exceptStore

\* handleFileChange, up to await Promise.all([...]). The file input is
\* rendered in the upload step unless the limit panel is.
HandleFileChange(f) ==
    /\ modal.isOpen /\ modal.step = "upload" /\ ~isLimitReached
    /\ Len(calls) < MaxPendingCalls
    /\ modal' = [modal EXCEPT !.file = f, !.step = "analyzing"]
    /\ calls' = Append(calls, [fn |-> "handleFileChange", pc |-> "all",
                               file |-> f])
    /\ notice' = NoNotice
    /\ UNCHANGED <<auth, docs, magazines>>
    /\ UNCHANGED exceptStore

\* What generateCoverThumbnail resolves with: the data URL of the first
\* page, or the fallback picture. And analyzePdf: the parsed answer or the
\* fallback of its catch block.
Covers(f) == {Url("data", f), Url("https", f)}
Analyses(f) == {Parsed, Fallback(FileName(f))}

\* Promise.all resolves: the setters are called, then setStep('review').
FileAnalysed(i) ==
    /\ At(i, "handleFileChange", "all")
    /\ \E coverUrl \in Covers(calls[i].file),
          result \in Analyses(calls[i].file) :
         modal' = [modal EXCEPT !.previewUrl = coverUrl,
                                !.title = result.title,
                                !.description = result.description,
                                !.category = result.category,
                                !.step = "review"]
    /\ calls' = Remove(calls, i)
    /\ notice' = NoNotice
    /\ UNCHANGED <<auth, docs, magazines>>
    /\ UNCHANGED exceptStore

\* What the user types into the form of the review step.
TypedTitle == <<"A", " ", "B">>

SetTitle ==
    /\ modal.isOpen /\ modal.step = "review"
    /\ modal' = [modal EXCEPT !.title = TypedTitle]
    /\ notice' = NoNotice
    /\ UNCHANGED <<auth, docs, magazines, calls>>
    /\ UNCHANGED exceptStore

SetDescription ==
    /\ modal.isOpen /\ modal.step = "review"
    /\ modal' = [modal EXCEPT !.description = "typed"]
    /\ notice' = NoNotice
    /\ UNCHANGED <<auth, docs, magazines, calls>>
    /\ UNCHANGED exceptStore

SetCategory ==
    /\ modal.isOpen /\ modal.step = "review"
    /\ modal' = [modal EXCEPT !.category = "typed"]
    /\ notice' = NoNotice
    /\ UNCHANGED <<auth, docs, magazines, calls>>
    /\ UNCHANGED exceptStore

\* if (file): never true.
NeverNewFile(file) == FALSE

\* if (file) { ... process PDF details }
HasNewFile(file) == file # 0

\* startsWith('blob:') never true.
NeverBlob(data, key) == FALSE

\* The first await of updateMagazine and of addMagazine: the upload of a
\* blob: URL in pdfUrl, then of one in coverImage, then the write.
IsBlob(data, key) == key \in DOMAIN data /\ data[key].scheme = "blob"
WriteOf(fn) == IF fn = "updateMagazine" THEN "updateDoc" ELSE "setDoc"
FirstAwait(fn, data) ==
    IF IsBlob(data, "pdfUrl") THEN "pdf"
    ELSE IF IsBlob(data, "coverImage") THEN "cover"
    ELSE WriteOf(fn)

\* updateMagazine(id, updates) or addMagazine(mag) suspended at its first
\* await; saved is what the form held when Save was clicked.
StoreCall(fn, id, data, saved) ==
    [fn |-> fn, pc |-> FirstAwait(fn, data), id |-> id, data |-> data,
     saved |-> saved]

\* What handleSave reads from the render it was created in.
Form ==
    [edit |-> modal.magazineToEdit, file |-> modal.file,
     previewUrl |-> modal.previewUrl, title |-> modal.title,
     description |-> modal.description, category |-> modal.category,
     slug |-> createSlug(modal.title), uid |-> auth.user]

\* const updates = { title, description, category, slug }
Updates(form) ==
    [title |-> form.title, description |-> form.description,
     category |-> form.category, slug |-> form.slug]

\* updates.pdfUrl = objectUrl; updates.coverImage = previewUrl; ...
FileUpdates(form) ==
    [pdfUrl |-> Url("blob", form.file), coverImage |-> form.previewUrl,
     pageCount |-> NumPages(form.file),
     originalFilename |-> FileName(form.file)]

NewMagazine(form, id) ==
    [id |-> id, userId |-> form.uid, title |-> form.title,
     description |-> form.description, category |-> form.category,
     pdfUrl |-> Url("blob", form.file), coverImage |-> form.previewUrl,
     createdAt |-> 1, pageCount |-> NumPages(form.file),
     slug |-> form.slug, originalFilename |-> FileName(form.file)]

\* handleSave, up to its first await or to its end. Without a user it
\* alerts; in edit mode without a new file it calls updateMagazine and
\* closes; in create mode without a file it returns; with a file it awaits
\* getPdfDocument.
HandleSave ==
    /\ modal.isOpen /\ modal.step = "review"
    /\ modal.saves < MaxSaves
    /\ IF auth.user = "none"
       THEN /\ notice' = [NoNotice EXCEPT
                            !.alert = "Debes iniciar sesión para guardar."]
            /\ modal' = [modal EXCEPT !.saves = @ + 1]
            /\ UNCHANGED calls
       ELSE IF HasNewFile(modal.file)
       THEN /\ Len(calls) < MaxPendingCalls
            /\ calls' = Append(calls, [fn |-> "handleSave",
                                       pc |-> "getPdfDocument",
                                       saved |-> Form])
            /\ modal' = [modal EXCEPT !.saves = @ + 1]
            /\ notice' = NoNotice
       ELSE IF modal.magazineToEdit # {}
       THEN /\ Len(calls) < MaxPendingCalls
            /\ \E mag \in modal.magazineToEdit :
                 calls' = Append(calls, StoreCall("updateMagazine", mag.id,
                                                  Updates(Form), Form))
            /\ modal' = [modal EXCEPT !.isOpen = FALSE, !.saves = @ + 1]
            /\ notice' = NoNotice
       ELSE /\ notice' = NoNotice
            /\ modal' = [modal EXCEPT !.saves = @ + 1]
            /\ UNCHANGED calls
    /\ UNCHANGED <<auth, docs, magazines>>
    /\ UNCHANGED exceptStore

\* getPdfDocument resolves: handleSave calls updateMagazine with the file
\* details added, or addMagazine with the new document, then onClose().
GetPdfDocumentResolve(i) ==
    /\ At(i, "handleSave", "getPdfDocument")
    /\ LET form == calls[i].saved
       IN IF form.edit # {}
          THEN \E mag \in form.edit :
                 calls' = [calls EXCEPT ![i] =
                             StoreCall("updateMagazine", mag.id,
                                       Updates(form) @@ FileUpdates(form),
                                       form)]
          ELSE /\ \E n \in 1..MaxDocs : <<DigitChars[n]>> \notin UsedIds
               /\ calls' = [calls EXCEPT ![i] =
                              StoreCall("addMagazine", RandomUUID,
                                        NewMagazine(form, RandomUUID), form)]
    /\ modal' = [modal EXCEPT !.isOpen = FALSE]
    /\ notice' = NoNotice
    /\ UNCHANGED <<auth, docs, magazines>>
    /\ UNCHANGED exceptStore

\* getPdfDocument rejects: nothing in handleSave catches it.
GetPdfDocumentReject(i) ==
    /\ At(i, "handleSave", "getPdfDocument")
    /\ calls' = Remove(calls, i)
    /\ notice' = [NoNotice EXCEPT !.by = <<calls[i]>>, !.unhandled = TRUE]
    /\ UNCHANGED <<auth, docs, magazines, modal>>
    /\ UNCHANGED exceptStore

Uploading(i) ==
    /\ i \in 1..Len(calls)
    /\ calls[i].fn \in {"updateMagazine", "addMagazine"}
    /\ calls[i].pc \in {"pdf", "cover"}

\* uploadAsset resolves with the download URL, which replaces the blob:
\* URL in what will be written.
UploadAssetResolve(i) ==
    /\ Uploading(i)
    /\ LET key == IF calls[i].pc = "pdf" THEN "pdfUrl" ELSE "coverImage"
           data == [calls[i].data EXCEPT
                      ![key] = Url("firebasestorage", @.n)]
       IN calls' = [calls EXCEPT ![i].data = data,
                                 ![i].pc = FirstAwait(calls[i].fn, data)]
    /\ notice' = NoNotice
    /\ UNCHANGED <<auth, docs, magazines, modal>>
    /\ UNCHANGED exceptStore

\* catch (error) of updateMagazine and of addMagazine: console.error and
\* an alert.
WriteCatch(i) ==
    /\ calls' = Remove(calls, i)
    /\ notice' = [Returns(calls[i], {}) EXCEPT
                    !.console = IF calls[i].fn = "updateMagazine"
                                THEN "Error updating magazine:"
                                ELSE "Error adding magazine:",
                    !.alert = IF calls[i].fn = "updateMagazine"
                              THEN "Error al actualizar."
                              ELSE "Error al subir la revista."]

\* uploadAsset rejects (fetch, uploadBytes or getDownloadURL failed).
UploadAssetReject(i) ==
    /\ Uploading(i)
    /\ WriteCatch(i)
    /\ UNCHANGED <<auth, docs, magazines, modal>>
    /\ UNCHANGED exceptStore

\* updateDoc(ref, fields): the fields given replace those of the document.
Merged(doc, fields) ==
    [k \in DOMAIN doc |-> IF k \in DOMAIN fields THEN fields[k] ELSE doc[k]]

\* updateDoc resolves: the document exists and its fields are replaced.
UpdateDocResolve(i) ==
    /\ At(i, "updateMagazine", "updateDoc")
    /\ \E d \in docs : d.id = calls[i].id
    /\ docs' = {IF d.id = calls[i].id THEN Merged(d, calls[i].data) ELSE d :
                   d \in docs}
    /\ calls' = Remove(calls, i)
    /\ notice' = Returns(calls[i], {})
    /\ UNCHANGED <<auth, magazines, modal>>
    /\ UNCHANGED exceptStore

\* updateDoc rejects: no such document, no permission, no connection.
UpdateDocReject(i) ==
    /\ At(i, "updateMagazine", "updateDoc")
    /\ WriteCatch(i)
    /\ UNCHANGED <<auth, docs, magazines, modal>>
    /\ UNCHANGED exceptStore

\* setDoc resolves: the document is in the collection.
SetDocResolve(i) ==
    /\ At(i, "addMagazine", "setDoc")
    /\ docs' = {d \in docs : d.id # calls[i].id} \cup {calls[i].data}
    /\ calls' = Remove(calls, i)
    /\ notice' = Returns(calls[i], {})
    /\ UNCHANGED <<auth, magazines, modal>>
    /\ UNCHANGED exceptStore

SetDocReject(i) ==
    /\ At(i, "addMagazine", "setDoc")
    /\ WriteCatch(i)
    /\ UNCHANGED <<auth, docs, magazines, modal>>
    /\ UNCHANGED exceptStore

\* The user is signed in, with or without the premium role, and owns one
\* document, which the snapshot has delivered.
EditInit ==
    /\ NoPage
    /\ viewer = ClosedViewer
    /\ goTo = NoCall
    /\ fit = NoFit
    /\ analysis = NoAnalysis
    /\ auth \in [user : {Uid}, role : {"free", "premium"}]
    /\ docs = {Stored(<<"1">>, <<"A">>, "firebasestorage", "data")}
    /\ magazines = docs
    /\ modal = ClosedModal
    /\ calls = <<>>
    /\ notice = NoNotice

EditNext ==
    \/ \E mag \in magazines : HandleEdit(mag)
    \/ OnClose
    \/ ChangePdf
    \/ \E f \in Files : HandleFileChange(f)
    \/ \E i \in 1..MaxPendingCalls : FileAnalysed(i)
    \/ SetTitle
    \/ SetDescription
    \/ SetCategory
    \/ HandleSave
    \/ \E i \in 1..MaxPendingCalls : GetPdfDocumentResolve(i)
    \/ \E i \in 1..MaxPendingCalls : GetPdfDocumentReject(i)
    \/ \E i \in 1..MaxPendingCalls : UploadAssetResolve(i)
    \/ \E i \in 1..MaxPendingCalls : UploadAssetReject(i)
    \/ \E i \in 1..MaxPendingCalls : UpdateDocResolve(i)
    \/ \E i \in 1..MaxPendingCalls : UpdateDocReject(i)
    \/ Snapshot

EditSpec == EditInit /\ [][EditNext]_vars

\* The upload limit. Another session of the same user (another tab or
\* device) publishes a magazine through its own modal, which lets it while
\* that session counts fewer than 5 or the user is premium; its setDoc
\* resolves.
OtherSessionSetDoc ==
    /\ auth.role = "premium"
       \/ Cardinality({d \in docs : d.userId = auth.user}) < UploadLimit
    /\ \E n \in 1..MaxDocs : <<DigitChars[n]>> \notin UsedIds
    /\ docs' = docs \cup {Stored(RandomUUID, <<"B">>, "firebasestorage",
                                 "data")}
    /\ notice' = NoNotice
    /\ UNCHANGED <<auth, magazines, modal, calls>>
    /\ UNCHANGED exceptStore

\* The user is signed in and owns four documents, which the snapshot has
\* delivered.
LimitInit ==
    /\ NoPage
    /\ viewer = ClosedViewer
    /\ goTo = NoCall
    /\ fit = NoFit
    /\ analysis = NoAnalysis
    /\ auth \in [user : {Uid}, role : {"free", "premium"}]
    /\ docs = {Stored(<<DigitChars[n]>>, <<"A">>, "firebasestorage", "data") :
                 n \in 1..(UploadLimit - 1)}
    /\ magazines = docs
    /\ modal = ClosedModal
    /\ calls = <<>>
    /\ notice = NoNotice

LimitNext ==
    \/ HandleOpenUpload
    \/ OnClose
    \/ ChangePdf
    \/ \E f \in Files : HandleFileChange(f)
    \/ \E i \in 1..MaxPendingCalls : FileAnalysed(i)
    \/ HandleSave
    \/ \E i \in 1..MaxPendingCalls : GetPdfDocumentResolve(i)
    \/ \E i \in 1..MaxPendingCalls : GetPdfDocumentReject(i)
    \/ \E i \in 1..MaxPendingCalls : UploadAssetResolve(i)
    \/ \E i \in 1..MaxPendingCalls : UploadAssetReject(i)
    \/ \E i \in 1..MaxPendingCalls : SetDocResolve(i)
    \/ \E i \in 1..MaxPendingCalls : SetDocReject(i)
    \/ OtherSessionSetDoc
    \/ Snapshot

LimitSpec == LimitInit /\ [][LimitNext]_vars

\* ------------------------------------- AuthProvider and the listener
\* A second account, and the role in the profile document of each account.
OtherUid == "v"
ProfileRole(uid) == IF uid = Uid THEN "free" ELSE "premium"

\* The callback of onAuthStateChanged up to its await, the render it causes
\* and the effect [user] of AppProvider: setUser(currentUser); without a
\* user setUserProfile(null), with one getDoc(users/uid) is awaited. The
\* cleanup of the effect unsubscribes the listener; the effect sets
\* magazines to [] without a user and subscribes to the documents of the
\* user otherwise.
AuthStateChanged(currentUser) ==
    /\ currentUser # auth.user
    /\ LET others == SelectSeq(calls, LAMBDA c : c.fn # "onSnapshot")
           fetch == [fn |-> "onAuthStateChanged", pc |-> "getDoc",
                     uid |-> currentUser]
           listener == [fn |-> "onSnapshot", pc |-> "listening",
                        uid |-> currentUser]
       IN IF currentUser = "none"
          THEN /\ auth' = NoUser
               /\ calls' = others
               /\ magazines' = {}
          ELSE /\ Len(others) < MaxPendingCalls
               /\ auth' = [auth EXCEPT !.user = currentUser]
               /\ calls' = others \o <<fetch, listener>>
               /\ UNCHANGED magazines
    /\ notice' = NoNotice
    /\ UNCHANGED <<docs, modal>>
    /\ UNCHANGED exceptStore

\* getDoc settles: setUserProfile(docSnap.data()) when the profile exists,
\* setUserProfile(null) when it does not or when getDoc rejects.
ProfileSettles(i, outcome) ==
    /\ At(i, "onAuthStateChanged", "getDoc")
    /\ auth' = [auth EXCEPT !.role = IF outcome = "exists"
                                     THEN ProfileRole(calls[i].uid)
                                     ELSE "none"]
    /\ calls' = Remove(calls, i)
    /\ notice' = IF outcome = "error"
                 THEN [NoNotice EXCEPT
                         !.console = "Error fetching user profile:"]
                 ELSE NoNotice
    /\ UNCHANGED <<docs, magazines, modal>>
    /\ UNCHANGED exceptStore

\* logout, up to await signOut(auth).
Logout ==
    /\ auth.user # "none"
    /\ Len(calls) <= MaxPendingCalls
    /\ calls' = Append(calls, [fn |-> "logout", pc |-> "signOut"])
    /\ notice' = NoNotice
    /\ UNCHANGED <<auth, docs, magazines, modal>>
    /\ UNCHANGED exceptStore

\* signOut resolves, after the callback of onAuthStateChanged has been
\* called with null: setUserProfile(null).
SignOutResolve(i) ==
    /\ At(i, "logout", "signOut")
    /\ auth.user = "none"
    /\ auth' = [auth EXCEPT !.role = "none"]
    /\ calls' = Remove(calls, i)
    /\ notice' = NoNotice
    /\ UNCHANGED <<docs, magazines, modal>>
    /\ UNCHANGED exceptStore

\* The listener of onSnapshot is called with the documents of its query.
ListenerSnapshot(i) ==
    /\ At(i, "onSnapshot", "listening")
    /\ magazines # {d \in docs : d.userId = calls[i].uid}
    /\ magazines' = {d \in docs : d.userId = calls[i].uid}
    /\ notice' = NoNotice
    /\ UNCHANGED <<auth, docs, modal, calls>>
    /\ UNCHANGED exceptStore

\* Nobody is signed in; each account owns one document.
AuthInit ==
    /\ NoPage
    /\ viewer = ClosedViewer
    /\ goTo = NoCall
    /\ fit = NoFit
    /\ analysis = NoAnalysis
    /\ auth = NoUser
    /\ docs = {Stored(<<"1">>, <<"A">>, "firebasestorage", "data"),
               [Stored(<<"2">>, <<"B">>, "firebasestorage", "data")
                  EXCEPT !.userId = OtherUid]}
    /\ magazines = {}
    /\ modal = ClosedModal
    /\ calls = <<>>
    /\ notice = NoNotice

AuthNext ==
    \/ \E currentUser \in {"none", Uid, OtherUid} :
         AuthStateChanged(currentUser)
    \/ \E i \in 1..(MaxPendingCalls + 2),
          outcome \in {"exists", "missing", "error"} :
         ProfileSettles(i, outcome)
    \/ Logout
    \/ \E i \in 1..(MaxPendingCalls + 2) : SignOutResolve(i)
    \/ \E i \in 1..(MaxPendingCalls + 2) : ListenerSnapshot(i)

AuthSpec == AuthInit /\ [][AuthNext]_vars

\* ----------------------------------------------------- FlipbookViewer
\* How many pages a document has at most, how many loads can be pending,
\* and how far the book is dragged.
MaxPages == 4
MaxLoads == 2
MaxPan == 10

\* zoom 1 and zoom 3, and the step of 0.5, in halves.
MinZoom == 2
MaxZoom == 6
ZoomStep == 1
\* Math.abs(dx) > 5
DragThreshold == 5
\* width < 768; paddingY = 40
MobileWidth == 768
PaddingY == 40

\* No message at all.
NoMessage(name) == "null"

\* The message of the catch block of loadPdf.
LoadErrorMessage(name) ==
    IF name \in {"UnknownErrorException", "MissingPDFException"}
    THEN "Error de acceso al archivo (Posible bloqueo CORS)."
    ELSE "No se pudo cargar el documento."

\* The effect [magazine.pdfUrl]: loadPdf up to await getPdfDocument.
PdfUrlChange ==
    /\ viewer.pending < MaxLoads
    /\ viewer' = [viewer EXCEPT !.loading = TRUE, !.error = "null",
                                !.pending = @ + 1]
    /\ UNCHANGED exceptViewer

\* getPdfDocument resolves: setPdfDoc, setTotalPages, and finally
\* setLoading(false).
LoadResolve(numPages) ==
    /\ viewer.pending > 0
    /\ viewer' = [viewer EXCEPT !.totalPages = numPages, !.loading = FALSE,
                                !.pending = @ - 1]
    /\ UNCHANGED exceptViewer

\* getPdfDocument rejects: setError(msg), and finally setLoading(false).
LoadReject(name) ==
    /\ viewer.pending > 0
    /\ viewer' = [viewer EXCEPT !.error = LoadErrorMessage(name),
                                !.loading = FALSE, !.pending = @ - 1]
    /\ UNCHANGED exceptViewer

\* measure, the callback of the ResizeObserver.
Measure(width, height) ==
    /\ width # 0 /\ height # 0
    /\ viewer' = [viewer EXCEPT !.isMobile = width < MobileWidth,
                                !.height = height - PaddingY]
    /\ UNCHANGED exceptViewer

\* The updater of goToPrev.
GoToPrevPage(p, isMobile, totalPages) ==
    IF isMobile THEN (IF p - 1 > 1 THEN p - 1 ELSE 1)
    ELSE IF p = 1 THEN 1
    ELSE IF p = totalPages /\ totalPages > 1
    THEN IF p % 2 # 0 THEN (IF p - 1 > 1 THEN p - 1 ELSE 1)
         ELSE (IF p - 2 > 1 THEN p - 2 ELSE 1)
    ELSE IF p <= 3 THEN 1
    ELSE LET target == p - 2
             even == IF target % 2 = 0 THEN target ELSE target - 1
         IN IF even > 1 THEN even ELSE 1

\* The updater of goToNext.
GoToNextPage(p, isMobile, totalPages) ==
    IF isMobile THEN (IF p + 1 < totalPages THEN p + 1 ELSE totalPages)
    ELSE IF p = 1 THEN 2
    ELSE LET target == IF p % 2 = 0 THEN p + 2 ELSE p + 1
         IN IF target >= totalPages THEN totalPages ELSE target

\* useSingleView, and the page numbers of the PDFPage elements rendered:
\* leftPageNum alone, or leftPageNum and rightPageNum where they are pages.
UseSingleView(p, isMobile, totalPages) ==
    \/ isMobile
    \/ totalPages = 1
    \/ p = 1
    \/ totalPages > 1 /\ p = totalPages
Displayed(p, isMobile, totalPages) ==
    IF UseSingleView(p, isMobile, totalPages) THEN {p}
    ELSE LET startSpread == IF p % 2 = 0 THEN p ELSE p - 1
         IN {n \in {startSpread, startSpread + 1} : n > 0 /\ n <= totalPages}

\* What the component renders in the main area.
Shown ==
    [loader |-> viewer.loading,
     errorPanel |-> viewer.error # "null",
     arrows |-> viewer.error = "null" /\ viewer.totalPages > 0
                /\ viewer.zoom = MinZoom,
     book |-> viewer.error = "null" /\ viewer.totalPages > 0
              /\ viewer.height > 0]

\* setCurrentPage(p), and the effect [currentPage]: setZoom(1) and
\* setPan({x: 0, y: 0}) when the page has changed.
Turned(p) ==
    IF p = viewer.currentPage THEN viewer
    ELSE [viewer EXCEPT !.currentPage = p, !.zoom = MinZoom,
                        !.pan = [x |-> 0, y |-> 0]]
Go(direction) ==
    Turned(IF direction = "prev"
           THEN GoToPrevPage(viewer.currentPage, viewer.isMobile,
                             viewer.totalPages)
           ELSE GoToNextPage(viewer.currentPage, viewer.isMobile,
                             viewer.totalPages))

\* A click on one of the two arrow buttons, disabled on the first and on
\* the last page.
ArrowButton(direction) ==
    /\ Shown.arrows
    /\ direction = "prev" => viewer.currentPage # 1
    /\ direction = "next" => viewer.currentPage # viewer.totalPages
    /\ viewer' = Go(direction)
    /\ UNCHANGED exceptViewer

\* handleKeyDown, the listener of window.
HandleKeyDown(key) ==
    /\ key \in {"ArrowLeft", "ArrowRight"}
    /\ viewer' = Go(IF key = "ArrowLeft" THEN "prev" ELSE "next")
    /\ UNCHANGED exceptViewer

\* handlePageClick, from a click on a page of the book.
HandlePageClick(direction) ==
    /\ Shown.book
    /\ ~viewer.isDragging
    /\ ~(viewer.zoom > MinZoom /\ viewer.hasMoved)
    /\ viewer' = Go(direction)
    /\ UNCHANGED exceptViewer

\* if (newZoom <= 1) setPan({ x: 0, y: 0 })  left out.
KeepPan(newZoom) == viewer.pan

\* if (newZoom <= 1) setPan({ x: 0, y: 0 })
PanAfterZoom(newZoom) ==
    IF newZoom <= MinZoom THEN [x |-> 0, y |-> 0] ELSE viewer.pan

\* updateZoom, from the zoom buttons: Math.max(1, zoom - 0.5) and
\* Math.min(3, zoom + 0.5).
UpdateZoom(button) ==
    LET newZoom ==
          IF button = "out"
          THEN (IF viewer.zoom - ZoomStep > MinZoom
                THEN viewer.zoom - ZoomStep ELSE MinZoom)
          ELSE (IF viewer.zoom + ZoomStep < MaxZoom
                THEN viewer.zoom + ZoomStep ELSE MaxZoom)
    IN /\ viewer' = [viewer EXCEPT !.zoom = newZoom,
                                   !.pan = PanAfterZoom(newZoom)]
       /\ UNCHANGED exceptViewer

HandleMouseDown(clientX) ==
    /\ viewer.zoom > MinZoom
    /\ viewer' = [viewer EXCEPT !.isDragging = TRUE, !.hasMoved = FALSE,
                                !.dragStart = [x |-> clientX, y |-> 0],
                                !.panStart = viewer.pan]
    /\ UNCHANGED exceptViewer

HandleMouseMove(clientX) ==
    /\ viewer.isDragging /\ viewer.zoom > MinZoom
    /\ LET dx == clientX - viewer.dragStart.x
           dy == 0 - viewer.dragStart.y
           abs == IF dx < 0 THEN 0 - dx ELSE dx
           pan == [x |-> viewer.panStart.x + dx, y |-> viewer.panStart.y + dy]
       IN /\ pan.x <= MaxPan /\ 0 - pan.x <= MaxPan
          /\ viewer' = [viewer EXCEPT
                          !.hasMoved = @ \/ abs > DragThreshold,
                          !.pan = pan]
    /\ UNCHANGED exceptViewer

HandleMouseUp ==
    /\ viewer' = [viewer EXCEPT !.isDragging = FALSE]
    /\ UNCHANGED exceptViewer

HandleMouseLeave ==
    /\ viewer' = [viewer EXCEPT !.isDragging = FALSE]
    /\ UNCHANGED exceptViewer

\* The component has mounted and its effects have run: the first load is
\* pending.
ViewerInit ==
    /\ NoPage
    /\ goTo = NoCall
    /\ fit = NoFit
    /\ analysis = NoAnalysis
    /\ NoStore
    /\ viewer = [ClosedViewer EXCEPT !.pending = 1]

ViewerNext ==
    \/ PdfUrlChange
    \/ \E numPages \in 1..MaxPages : LoadResolve(numPages)
    \/ \E name \in {"MissingPDFException", "Error"} : LoadReject(name)
    \/ \E width \in {0, 500, 1000}, height \in {0, 600} :
         Measure(width, height)
    \/ \E direction \in {"prev", "next"} : ArrowButton(direction)
    \/ \E key \in {"ArrowLeft", "ArrowRight"} : HandleKeyDown(key)
    \/ \E direction \in {"prev", "next"} : HandlePageClick(direction)
    \/ \E button \in {"out", "in"} : UpdateZoom(button)
    \/ \E clientX \in {0, 10} : HandleMouseDown(clientX)
    \/ \E clientX \in {0, 10} : HandleMouseMove(clientX)
    \/ HandleMouseUp
    \/ HandleMouseLeave

ViewerSpec == ViewerInit /\ [][ViewerNext]_vars

\* Every pending load settles.
ViewerFairSpec ==
    ViewerSpec
    /\ WF_vars(\E numPages \in 1..MaxPages : LoadResolve(numPages))
    /\ WF_vars(\E name \in {"MissingPDFException", "Error"} : LoadReject(name))

\* Creating and editing through the modal, from one stored document.
WriteNext ==
    \/ HandleOpenUpload
    \/ \E mag \in magazines : HandleEdit(mag)
    \/ OnClose
    \/ ChangePdf
    \/ \E f \in Files : HandleFileChange(f)
    \/ \E i \in 1..MaxPendingCalls : FileAnalysed(i)
    \/ HandleSave
    \/ \E i \in 1..MaxPendingCalls : GetPdfDocumentResolve(i)
    \/ \E i \in 1..MaxPendingCalls : GetPdfDocumentReject(i)
    \/ \E i \in 1..MaxPendingCalls : UploadAssetResolve(i)
    \/ \E i \in 1..MaxPendingCalls : UploadAssetReject(i)
    \/ \E i \in 1..MaxPendingCalls : UpdateDocResolve(i)
    \/ \E i \in 1..MaxPendingCalls : UpdateDocReject(i)
    \/ \E i \in 1..MaxPendingCalls : SetDocResolve(i)
    \/ \E i \in 1..MaxPendingCalls : SetDocReject(i)
    \/ Snapshot

WriteSpec == EditInit /\ [][WriteNext]_vars

\* ----------------------------------------------------- specification
Next ==
    \/ RunEffect
    \/ \E b \in Boxes : BoxChange(b)
    \/ \E p \in BOOLEAN : DepsChange(p)
    \/ Unmount
    \/ \E k \in Slots : GetPageResolve(k)
    \/ \E k \in Slots : GetPageReject(k)
    \/ \E k \in Slots : TaskCompletes(k)
    \/ \E k \in Slots : RasterResolve(k)
    \/ \E k \in Slots : RasterReject(k)
    \/ \E k \in Slots : RasterCancelled(k)
    \/ \E k \in Slots : TextContentResolve(k)
    \/ \E k \in Slots : TextContentReject(k)
    \/ \E k \in Slots : RenderTextResolve(k)
    \/ \E k \in Slots : RenderTextReject(k)
    \/ \E k \in Slots : AnnotationsResolve(k)
    \/ \E k \in Slots : AnnotationsReject(k)
    \/ \E k \in Slots : LayerRenderResolve(k)
    \/ \E k \in Slots : LayerRenderReject(k)

Spec == Init /\ [][Next]_vars

\* --------------------------------------------------------- properties
\* C1: at most one page.render task is in flight (started and neither
\* completed nor cancelled) at any time, and it is the task stored in
\* renderTaskRef: every task stored before it was cancelled, or had
\* completed, before the new one was started.
C1_OneTaskInFlight ==
    /\ Cardinality({k \in Slots : inv[k].task = "running"}) <= 1
    /\ \A k \in Slots : inv[k].task = "running" => renderTaskRef = k

\* A new task is in flight while the promise of the cancelled one before
\* it has not been rejected yet.
C1_Witness ==
    /\ inv[Cur].task = "running"
    /\ \E k \in Slots \ {Cur} : inv[k].pc = "raster" /\ inv[k].task = "cancelled"

\* C2: a render request issued before the raster of the request before it
\* has completed commits exactly one raster to the canvas, so never more
\* than one.
C2_OneRasterPerRequest == request.superseding => request.commits <= 1

\* C3: once the cleanup of its effect run has run, an invocation of
\* render() that resumes updates no React state and changes neither the
\* text layer nor the annotation layer (content or listeners), whichever
\* await it was suspended at.
C3_SupersededIsNoOp ==
    [][\A k \in Slots :
          inv[k].pc # "free" /\ ~inv[k].mounted /\ inv'[k] # inv[k]
          => UNCHANGED <<rendered, isRendering, textLayer, annotLayer>>]_vars

C5_ExternalClickOpensOnce ==
    ListenersInstalled =>
        \A t \in Targets : t[1] \in {"http", "mailto"} =>
            /\ Outcome("click", t).prevented
            /\ Outcome("click", t).opens = <<WindowOpen(HrefAttr(t[1]))>>
            /\ Outcome("click", t).ancBubble = 0

\* C6: a click on the anchor of a link to a destination in the document
\* calls onPageJump with the page index of the destination, and does not
\* call window.open.
C6_InternalClickJumps ==
    ListenersInstalled =>
        /\ JumpsOf(Outcome("click", <<"internal", "a">>).gotos, TRUE, <<6>>) = <<6>>
        /\ Outcome("click", <<"internal", "a">>).opens = <<>>

\* C7: when the page has been rendered for its box and the rendered flag
\* is set, a run of the effect with the same box calls page.render no
\* second time, for a priority page or any other.
C7_NoSecondRender ==
    [][\A k \in Slots :
          GetPageResolve(k) /\ inv[k].mounted
          => ~(rendered /\ canvas.raster /\ canvas.box = inv[k].box)]_vars

\* C8: after the page has been rendered, the run of the effect that
\* follows a change of the box starts a new render at the new box, for a
\* priority page or any other.
C8_BoxChangeRenders ==
    [][RunEffect /\ rendered /\ canvas.raster /\ canvas.box # props.box
       => inv'[Cur].pc = "getPage" /\ inv'[Cur].box = props.box]_vars

\* C9: the text layer is written only by an invocation whose render task
\* has completed, and the annotation layer only by an invocation whose
\* task has completed and that is in, or past, its text step.
C9_LayersAfterRaster ==
    [][/\ textLayer' # textLayer =>
            \E k \in Slots : /\ inv'[k] # inv[k]
                             /\ inv[k].task = "done"
                             /\ inv[k].pc \in {"raster", "renderText"}
       /\ annotLayer' # annotLayer =>
            \E k \in Slots : /\ inv'[k] # inv[k]
                             /\ inv[k].task = "done"
                             /\ inv[k].pc \in {"getText", "renderText",
                                               "getAnnots", "layerRender"}]_vars

\* The raster is on the canvas, the text layer holds its spans and the
\* annotation layer is being rendered.
C9_Witness ==
    /\ inv[Cur].pc = "layerRender" /\ inv[Cur].task = "done"
    /\ canvas.raster /\ textLayer.full /\ annotLayer.full

\* C10: a failure of getTextContent or of renderTextLayer is logged as a
\* text layer error and render() goes on to fetch the annotations; a
\* failure of getAnnotations or of layer.render is logged as an annotation
\* layer error and leaves the raster, the rendered flag and the text layer
\* as they were.
C10_LayerFailuresIsolated ==
    [][\A k \in Slots :
          /\ TextContentReject(k) \/ RenderTextReject(k)
             => /\ console' = "Text Layer Error"
                /\ UNCHANGED <<rendered, canvas>>
                /\ alive => inv'[k].pc = "getAnnots"
          /\ AnnotationsReject(k) \/ LayerRenderReject(k)
             => /\ console' = "Annotation Layer Error"
                /\ UNCHANGED <<rendered, canvas, textLayer>>]_vars

\* The text layer of the page has just failed and its annotations are
\* being fetched.
C10_Witness ==
    /\ console = "Text Layer Error"
    /\ alive /\ annots /\ rendered /\ canvas.raster
    /\ inv[Cur].pc = "getAnnots" /\ inv[Cur].mounted

\* C11 (as stated): when getPage or the render task fails with a genuine
\* error the attempt is aborted: render() returns, rendered is not set, no
\* layer is written, and isRendering is false afterwards whenever the
\* component is still in the tree.
C11_FailureAbortsWhileInTree ==
    [][\A k \in Slots :
          GetPageReject(k) \/ RasterReject(k)
          => /\ inv'[k].pc = "free"
             /\ UNCHANGED <<rendered, textLayer, annotLayer>>
             /\ alive => ~isRendering']_vars

\* C11 (amended): when getPage or the render task fails with a genuine
\* error the attempt is aborted: render() returns, the error is logged,
\* rendered is not set, no layer is written, and isRendering is reset to
\* false when the cleanup of that attempt's effect run has not run (the
\* component is in the tree and the attempt has not been superseded).
C11_FailureAborts ==
    [][\A k \in Slots :
          GetPageReject(k) \/ RasterReject(k)
          => /\ inv'[k].pc = "free"
             /\ console' = "Error rendering page"
             /\ UNCHANGED <<rendered, textLayer, annotLayer>>
             /\ inv[k].mounted => ~isRendering']_vars

\* The render task of a first render has just failed: the canvas was
\* sized, nothing else was written and the spinner is off.
C11_Witness ==
    /\ console = "Error rendering page"
    /\ alive /\ inv[Cur].pc = "free" /\ dirty = "none"
    /\ canvas.box # 0 /\ ~canvas.raster
    /\ ~rendered /\ ~isRendering /\ ~textLayer.full /\ ~annotLayer.full

\* C12: the rejection of a cancelled render task is never logged, and
\* every other rejection in the render pipeline is.
C12_OnlyCancellationIsSilent ==
    [][\A k \in Slots :
          /\ RasterCancelled(k) => console' = "none"
          /\ \/ GetPageReject(k) \/ RasterReject(k)
             \/ TextContentReject(k) \/ RenderTextReject(k)
             \/ AnnotationsReject(k) \/ LayerRenderReject(k)
             => console' # "none"]_vars

\* The cleanup has cancelled the task of a superseded invocation and the
\* rejection of its promise is still to be handled.
C12_Witness ==
    \E k \in Slots : /\ inv[k].pc = "raster" /\ inv[k].task = "cancelled"
                     /\ ~inv[k].mounted /\ alive /\ console = "none"

\* C13: a call of goToDestination never rejects; its failures are caught
\* and at most logged; onPageJump is called only with the page index that
\* getPageIndex resolved for an array destination, and never without the
\* callback, for a destination that is not an array, or when getPageIndex
\* rejects.
C13_GoToDestinationNeverRejects ==
    /\ goTo.settled # "rejected"
    /\ goTo.pc = "done" =>
          /\ goTo.settled = "fulfilled"
          /\ goTo.called = GoToDestination(goTo.dest, goTo.onPageJump, goTo.lookup)
          /\ (~goTo.onPageJump \/ goTo.dest.type # "array" \/ goTo.lookup = <<>>)
             => goTo.called = <<>>
    /\ goTo.warned <= goTo.calls

\* A call with the callback and an array destination whose reference the
\* document does not know has ended: logged, fulfilled, no jump.
C13_Witness ==
    /\ goTo.pc = "done" /\ goTo.settled = "fulfilled"
    /\ goTo.onPageJump /\ goTo.dest = [type |-> "array", ref |-> "9"]
    /\ goTo.warned = 1 /\ goTo.called = <<>>

\* C14: for every page size and box size the layout size of the fit scale
\* is at most the box on both axes and equal to it on at least one, so
\* that both centering offsets are non-negative and at least one is zero.
C14_FitContains ==
    fit.pc = "sized" =>
        /\ ~Less(ToNumber(fit.width), fit.cssViewport.width)
        /\ ~Less(ToNumber(fit.height), fit.cssViewport.height)
        /\ \/ fit.cssViewport.width = ToNumber(fit.width)
           \/ fit.cssViewport.height = ToNumber(fit.height)
        /\ ~fit.offsetX.neg /\ ~fit.offsetY.neg
        /\ fit.offsetX = Zero \/ fit.offsetY = Zero

\* The example of the claim: 600x800 into 400x400 gives 300x400 with the
\* offsets 50 and 0.
C14_Example ==
    /\ fit.pc = "sized"
    /\ fit.unscaledViewport = [width |-> 600, height |-> 800]
    /\ fit.width = 400 /\ fit.height = 400
    /\ fit.cssViewport = [width |-> ToNumber(300), height |-> ToNumber(400)]
    /\ fit.offsetX = ToNumber(50) /\ fit.offsetY = Zero

\* C15: when a render of the page completes (the invocation in force
\* returns from its annotation block), the canvas, the text layer and the
\* annotation layer have the size and position computed from one box, the
\* box of that invocation: no layer is sized from another scale factor.
C15_LayersAligned ==
    [][\A k \in Slots :
         /\ inv[k].mounted
         /\ \/ AnnotationsResolve(k) \/ AnnotationsReject(k)
            \/ LayerRenderResolve(k) \/ LayerRenderReject(k)
         /\ inv'[k].pc = "free"
         => /\ canvas'.box = inv[k].box
            /\ textLayer'.box = inv[k].box
            /\ annotLayer'.box = inv[k].box]_vars

\* C19: analyzePdf never rejects, and when there is no API key or the call
\* fails it returns one and the same fallback: the title derived from the
\* file name, an empty description and the category General.
C19_OneEmptyFallback ==
    /\ analysis.settled # "rejected"
    /\ analysis.pc = "done" /\ analysis.result # <<Parsed>>
       => analysis.result =
            <<[title |-> ReplaceFirst(analysis.file, PdfSuffix),
               description |-> "", category |-> "General"]>>

\* C18: getMagazineBySlug(s) returns a document whose slug is s when there
\* is one, otherwise the document whose id is s when there is one,
\* otherwise null; it never throws, and a backend error yields null.
C18_SlugThenId ==
    [][\A i \in 1..Len(calls) :
         LET s == calls[i].slugOrId
             bySlug == {d \in docs : d.slug = s}
             byId == {d \in docs : d.id = s}
             ended == /\ Len(calls') = Len(calls) - 1
                      /\ notice'.by = <<calls[i]>>
         IN /\ GetDocsResolve(i) \/ GetDocsReject(i)
               \/ GetDocResolve(i) \/ GetDocReject(i)
               => ~notice'.unhandled /\ notice'.alert = "none"
            /\ GetDocsResolve(i) /\ bySlug # {}
               => /\ ended
                  /\ notice'.returned \subseteq bySlug
                  /\ Cardinality(notice'.returned) = 1
            /\ GetDocsResolve(i) /\ bySlug = {}
               => /\ calls' = [calls EXCEPT ![i].pc = "getDoc"]
                  /\ notice'.by = <<>>
            /\ GetDocResolve(i) => ended /\ notice'.returned = byId
            /\ GetDocsReject(i) \/ GetDocReject(i)
               => ended /\ notice'.returned = {}]_vars

\* A lookup has returned the document whose slug is the parameter although
\* another document has the parameter as its id.
C18_Witness ==
    /\ notice.by # <<>>
    /\ notice.by[1].fn = "getMagazineBySlug"
    /\ \E d \in docs, e \in docs :
         /\ notice.returned = {d}
         /\ d.slug = notice.by[1].slugOrId
         /\ d.id # notice.by[1].slugOrId
         /\ e.id = notice.by[1].slugOrId

\* C17: a failed deletion of the PDF blob or of the cover blob is only
\* logged: it raises no alert and deleteMagazine goes on to call deleteDoc;
\* so does a call for a document that is not in the local list. A call of
\* deleteMagazine ends only after deleteDoc has been called, and when
\* deleteDoc succeeds the document is gone.
C17_DeleteDocAlwaysCalled ==
    [][/\ \A i \in 1..Len(calls) :
            /\ DeleteObjectReject(i)
               => /\ notice'.alert = "none"
                  /\ notice'.console \in {"Could not delete PDF",
                                          "Could not delete cover"}
                  /\ Len(calls') = Len(calls)
                  /\ calls'[i].pc \in {"cover", "deleteDoc"}
                  /\ calls[i].pc = "cover" => calls'[i].pc = "deleteDoc"
            /\ DeleteDocResolve(i)
               => \A d \in docs' : d.id # calls[i].id
       /\ Len(calls') < Len(calls)
          => \E i \in 1..Len(calls) :
                /\ calls[i].fn = "deleteMagazine"
                /\ calls[i].pc = "deleteDoc"
                /\ calls' = Remove(calls, i)
       /\ \A id \in {<<"1">>, <<"2">>} :
            DeleteMagazineCall(id) /\ (\A m \in magazines : m.id # id)
            => calls'[Len(calls')].pc = "deleteDoc"]_vars

\* The deletion of the cover blob has just failed, and deleteDoc has been
\* called for the document, which is still there.
C17_Witness ==
    /\ notice.console = "Could not delete cover"
    /\ notice.alert = "none"
    /\ \E i \in 1..Len(calls) :
         /\ At(i, "deleteMagazine", "deleteDoc")
         /\ \E d \in docs : d.id = calls[i].id /\ InStorage(d.coverImage)

C20_AtMostFive ==
    auth.role # "premium"
    => Cardinality({d \in docs : d.userId = auth.user}) <= UploadLimit

\* C22: every failure of a save, upload or delete action (getPdfDocument
\* inside handleSave, an upload, the write or the delete of the document)
\* shows an alert and none escapes as an unhandled rejection.
C22_FailuresAlerted ==
    [][\A i \in 1..MaxPendingCalls :
          \/ GetPdfDocumentReject(i) \/ UploadAssetReject(i)
          \/ UpdateDocReject(i) \/ SetDocReject(i) \/ DeleteDocReject(i)
          => notice'.alert # "none" /\ ~notice'.unhandled]_vars

\* C27: in create mode, whenever the open modal is at the review step a
\* file is selected.
C27_ReviewHasFile ==
    modal.isOpen /\ modal.magazineToEdit = {} /\ modal.step = "review"
    => modal.file # 0

\* C28: the completion of an analysis the modal is not waiting for (that of
\* a file selected before, or in a session before) changes neither the
\* preview, the title, the description, the category nor the step.
C28_LateAnalysisIgnored ==
    [][\A i \in 1..MaxPendingCalls :
          FileAnalysed(i) /\ modal.step # "analyzing" => modal' = modal]_vars

\* C30: no stored document ever holds a blob: URL in pdfUrl or coverImage,
\* and a step in which an upload fails writes nothing.
C30_NoBlobPersisted ==
    /\ [](\A d \in docs :
            d.pdfUrl.scheme # "blob" /\ d.coverImage.scheme # "blob")
    /\ [][\A i \in 1..MaxPendingCalls :
             UploadAssetReject(i) => docs' = docs]_vars

\* addMagazine has written a document that was handed over with a blob: URL
\* as pdfUrl: the document holds the download URL.
C30_Witness ==
    /\ notice.by # <<>>
    /\ notice.by[1].fn = "addMagazine"
    /\ notice.alert = "none"
    /\ notice.by[1].saved.file # 0
    /\ \E d \in docs :
         /\ d.id = notice.by[1].id
         /\ d.pdfUrl = Url("firebasestorage", notice.by[1].saved.file)

\* C21: magazines holds only documents whose userId is the uid of the user
\* signed in, and is empty when nobody is, also right after a logout or a
\* switch of user, before the first snapshot of the new user.
C21_OnlyOwnMagazines ==
    /\ \A d \in magazines : d.userId = auth.user
    /\ auth.user = "none" => magazines = {}

\* C29: userProfile is non-null only while a user is signed in, and it is
\* the profile of that user.
C29_ProfileOfCurrentUser ==
    auth.role # "none"
    => auth.user # "none" /\ auth.role = ProfileRole(auth.user)

C24_PageInRange ==
    viewer.totalPages >= 1
    => 1 <= viewer.currentPage /\ viewer.currentPage <= viewer.totalPages

\* C25: in desktop mode with N = totalPages >= 1, goToNext applied again
\* and again from page 1 reaches N within N steps and stays there, and
\* every page 1..N is displayed in one of the states visited.
C25_NextReachesLast ==
    viewer.totalPages >= 1
    => LET N == viewer.totalPages
           page[k \in 0..(N + 1)] ==
               IF k = 0 THEN 1 ELSE GoToNextPage(page[k - 1], FALSE, N)
       IN /\ \E k \in 0..N : \A j \in k..(N + 1) : page[j] = N
          /\ \A n \in 1..N :
               \E k \in 0..(N + 1) : n \in Displayed(page[k], FALSE, N)

\* C26 (as stated): zoom is within [1, 3], pan is (0, 0) whenever zoom is
\* 1, and pan changes only while a drag started at zoom > 1 is in progress.
C26_PanOnlyWhileDragging ==
    /\ [](/\ MinZoom <= viewer.zoom /\ viewer.zoom <= MaxZoom
          /\ viewer.zoom = MinZoom => viewer.pan = [x |-> 0, y |-> 0])
    /\ [][viewer'.pan # viewer.pan
          => viewer.isDragging /\ viewer.zoom > MinZoom]_vars

\* C26 (amended): zoom is within [1, 3], pan is (0, 0) whenever zoom is 1,
\* and pan changes only by a mouse move while a drag started at zoom > 1 is
\* in progress, or back to (0, 0) when zoom returns to 1 (zoom-out to 1, a
\* page change).
C26_PanDraggedOrReset ==
    /\ [](/\ MinZoom <= viewer.zoom /\ viewer.zoom <= MaxZoom
          /\ viewer.zoom = MinZoom => viewer.pan = [x |-> 0, y |-> 0])
    /\ [][viewer'.pan # viewer.pan
          => \/ /\ viewer.isDragging /\ viewer.zoom > MinZoom
                /\ \E clientX \in {0, 10} : HandleMouseMove(clientX)
             \/ /\ viewer'.pan = [x |-> 0, y |-> 0]
                /\ viewer'.zoom = MinZoom]_vars

\* The book is being dragged at zoom 1.5 and has moved.
C26_Witness ==
    /\ viewer.isDragging
    /\ viewer.zoom > MinZoom
    /\ viewer.pan # [x |-> 0, y |-> 0]
    /\ viewer.hasMoved

====
